---- MODULE Spec2Model ----
(***************************************************************************)
(* Model of the configuration caches (handler.py, dynamodb_config_loader)  *)
(* the per-session agent context store (handler.py agent_invocation) and   *)
(* the AgentCore memory conversation manager                               *)
(* (agentcore_memory_conversation_manager.py).                             *)
(*                                                                         *)
(* Seven specifications share the module and its variables:                *)
(*   SpecCfg      the typed accessors and the cache invalidation calls,    *)
(*                against a KV store / S3 / filesystem whose calls can     *)
(*                fail; a behaviour works on one cache key;                *)
(*   SpecRefresh  refresh_all_caches, step by step, over any content of    *)
(*                the stores;                                              *)
(*   SpecReload   writes, Relaxed gets and whole refreshes of one key,     *)
(*                one after the other;                                     *)
(*   SpecRace     a Relaxed get running in a tool thread while             *)
(*                refresh_all_caches runs;                                 *)
(*   SpecCtx      agent_invocation's choice, save and seeding of the       *)
(*                agent for a sequence of requests; the configuration      *)
(*                reads a request makes are those of SpecCfg and           *)
(*                SpecRefresh and leave the agent variables alone;         *)
(*   SpecOverlap  agent_invocation calls of one session suspended in       *)
(*                their streams while other requests run;                  *)
(*   SpecMem      one AgentCoreMemoryConversationManager, as               *)
(*                create_orchestrator makes it, and its agent's messages.  *)
(* Every call into a store or a service has its outcome chosen by the      *)
(* action that makes it.  The fallback manager is the strands              *)
(* SummarizingConversationManager the factory configures.                  *)
(***************************************************************************)
EXTENDS Naturals, Integers, Sequences, FiniteSets, TLC

VARIABLES
    \* ---- backing stores ----
    kv,               \* DynamoDB items INSTRUCTION#<agent>/v1: content or NoItem
    kvGlobal,         \* DynamoDB item GLOBAL_CONFIG/v1
    s3,               \* S3 objects configs/agent-instructions-library/<agent>.txt
    fs,               \* local files agent-instructions-library/<agent>.txt
    \* ---- in-process caches ----
    ddb_config_cache, \* dynamodb_config_loader._config_cache
    cache_initialized,\* dynamodb_config_loader._cache_initialized
    instructions_cache,  \* handler._instructions_cache
    config_cache,     \* handler._config_cache["global_configuration.json"]
    GLOBAL_CONFIG,    \* handler.GLOBAL_CONFIG
    initialization_complete, \* handler._initialization_complete
    \* ---- refresh_all_caches in progress ----
    rpc,              \* position inside refresh_all_caches
    rnames,           \* agent_names still to reload in step 4
    stats,            \* the stats dict being built / last returned
    \* ---- what the last call did (return value, store calls) ----
    obs,
    \* ---- the cache key the requests of a behaviour of SpecCfg work on ----
    key_under_test,
    \* ---- agent_invocation (context store) ----
    agent,            \* handler.agent: None or the live agent
    current_agent_name,
    agent_context_store,
    nextTurn,         \* source of fresh conversation turns
    ctx_obs,          \* what the last agent_invocation did
    away,             \* per agent: its live messages when it was switched away from
    sessions_seen,    \* session ids of the requests so far
    requests,         \* number of requests so far
    turn_session,     \* per conversation turn: the session of the request
                      \* whose agent run produced it
    \* ---- AgentCoreMemoryConversationManager ----
    mgr,              \* the manager's fields
    messages,         \* agent.messages of the manager's agent
    durable,          \* turns held by AgentCore Memory per (actor, session)
    pushed,           \* turns this manager handed to add_turns
    restored,         \* turns restore_from_session returned to this manager
    add_turns_calls,  \* add_turns calls so far
    mobs,             \* what the last manager call did
    \* ---- visualization_loader.py ----
    visualization_map_cache, \* visualization_loader._visualization_map_cache
    viz_s3,           \* S3 objects .../agent-visualization-maps/<agent>.json
    viz_fs,           \* local files agent-visualization-maps/<agent>.json
    \* ---- history of the key under test ----
    written_over_neg, \* per kind of key: a value was written to the store
                      \* while a cache held a negative entry for the key
                      \* ("written"), and a refresh completed since
                      \* ("refreshed")
    \* ---- a Relaxed get running in a tool thread ----
    pending,          \* the locals of load_instructions_for_agent between
                      \* its store read and its cache writes
    \* ---- the other typed items of the AgentConfigTable ----
    kv_docs,          \* CARD#<agent>, VIZ_MAP#<agent> and
                      \* VIZ_TEMPLATE#<agent>/<template> items
    \* ---- agent_invocation calls suspended in agent.stream_async ----
    streams,          \* per request slot: the Agent object its stream runs on
    last_run          \* per agent: the turns its latest finished run appended

cfgVars == <<kv, kvGlobal, s3, fs, ddb_config_cache, cache_initialized,
             instructions_cache, config_cache, GLOBAL_CONFIG,
             initialization_complete, rpc, rnames, stats, obs>>
ctxVars == <<agent, current_agent_name, agent_context_store, nextTurn,
             ctx_obs, away, sessions_seen, requests, turn_session>>
memVars == <<mgr, messages, durable, pushed, restored, add_turns_calls,
             mobs>>
vizVars == <<visualization_map_cache, viz_s3, viz_fs>>
overlapVars == <<streams, last_run>>
\* what the accessors and refresh_all_caches leave alone; what
\* agent_invocation's agent handling leaves alone
notCfgNorHistory == <<key_under_test, ctxVars, memVars, vizVars, pending,
    kv_docs, overlapVars>>
notCfgVars == <<notCfgNorHistory, written_over_neg>>
notCtxVars == <<cfgVars, key_under_test, memVars, vizVars, written_over_neg,
                pending, kv_docs, overlapVars>>
vars == <<cfgVars, key_under_test, ctxVars, memVars, vizVars,
          written_over_neg, pending, kv_docs, overlapVars>>

-----------------------------------------------------------------------------
(* Values                                                                   *)

Agents == {"A", "C"}
\* dict order of GLOBAL_CONFIG["agent_configs"]
AgentOrder == <<"A", "C">>
\* the agent whose keys the single-key specifications follow
UnderTest == "A"

NoItem == "NO_ITEM"     \* no item / object / file under the key
Absent == "ABSENT"      \* key not in the dict
None   == "None"        \* Python None (a negative cache entry when cached)

\* Instruction texts (placeholder free). " v2 " carries surrounding
\* whitespace, "" is an item stored with empty content.
KvContents == {"", "v1", " v2 "}
S3Text == "s3text"
FsText == "fstext"

\* str.strip()
Strip(c) == IF c = " v2 " THEN "v2" ELSE c

\* Python truthiness of an Optional[str]
Truthy(c) == c # None /\ c # ""

\* Outcome of one DynamoDB call: answered, botocore ClientError, or another
\* exception (connect / read timeout: BotoCoreError, not a ClientError).
KvOutcomes == {"ok", "client_error", "timeout"}
\* Outcome of one S3 get_object: answered or any exception.
S3Outcomes == {"ok", "error"}
\* Outcome of the filesystem lookup.
FsOutcomes == {"ok", "nodir", "error"}

NoLibraryDir == "Couldn't load instructions - library directory not found."
FileNotFound == "Couldn't load instructions - file not found."
CouldntLoad  == "Couldn't load instructions."
CouldntLoadTexts == {NoLibraryDir, FileNotFound, CouldntLoad}

\* A global configuration: the parsed JSON dict. truthy = the dict has a key;
\* agents = keys of its "agent_configs".
Cfg(t, as) == [kind |-> "cfg", truthy |-> t, agents |-> as]
EmptyDict == Cfg(FALSE, {})
CfgNone   == [kind |-> "none", truthy |-> FALSE, agents |-> {}]
CfgAbsent == [kind |-> "absent", truthy |-> FALSE, agents |-> {}]
CfgNoItem == [kind |-> "noitem", truthy |-> FALSE, agents |-> {}]
CfgMalformed == [kind |-> "malformed", truthy |-> FALSE, agents |-> {}]
Configs == {EmptyDict} \cup {Cfg(TRUE, as) : as \in SUBSET Agents}

NoIo == [kv |-> 0, s3 |-> 0, fs |-> 0]

-----------------------------------------------------------------------------
(* dynamodb_config_loader.py                                                *)

\* _get_item: the item when the call is answered and the item exists, None
\* when there is no item or on ClientError (logged); any other exception
\* propagates.  present = the table holds an item under (pk, sk).
_get_item(present, item, o, consistent) ==
    [raised |-> o = "timeout",
     found  |-> o = "ok" /\ present,
     item   |-> item,
     consistent |-> consistent]

\* Variant of load_agent_instructions that answers a use_cache=False read
\* from the cache when the key is cached.
LoadAgentInstructionsKeepsCache(c, a, use_cache, o) ==
    IF c.instruction[a] # Absent
    THEN [val |-> c.instruction[a], raised |-> FALSE, cache |-> c,
          kvcalls |-> 0, consistent |-> FALSE]
    ELSE LET r == _get_item(kv[a] # NoItem, kv[a], o, ~use_cache) IN
         IF r.raised
         THEN [val |-> None, raised |-> TRUE, cache |-> c,
               kvcalls |-> 1, consistent |-> r.consistent]
         ELSE IF r.found
         THEN [val |-> r.item, raised |-> FALSE,
               cache |-> [c EXCEPT !.instruction[a] = r.item],
               kvcalls |-> 1, consistent |-> r.consistent]
         ELSE [val |-> None, raised |-> FALSE,
               cache |-> [c EXCEPT !.instruction[a] = None],
               kvcalls |-> 1, consistent |-> r.consistent]

\* load_agent_instructions(agent_name, use_cache) on cache c
load_agent_instructions(c, a, use_cache, o) ==
    IF use_cache /\ c.instruction[a] # Absent
    THEN [val |-> c.instruction[a], raised |-> FALSE, cache |-> c,
          kvcalls |-> 0, consistent |-> FALSE]
    ELSE LET r == _get_item(kv[a] # NoItem, kv[a], o, ~use_cache) IN
         IF r.raised
         THEN [val |-> None, raised |-> TRUE, cache |-> c,
               kvcalls |-> 1, consistent |-> r.consistent]
         ELSE IF r.found
         THEN [val |-> r.item, raised |-> FALSE,
               cache |-> [c EXCEPT !.instruction[a] = r.item],
               kvcalls |-> 1, consistent |-> r.consistent]
         ELSE [val |-> None, raised |-> FALSE,
               cache |-> [c EXCEPT !.instruction[a] = None],
               kvcalls |-> 1, consistent |-> r.consistent]

\* load_global_config(use_cache) on cache c: the parsed dict, or CfgNone
\* (no item, ClientError, invalid JSON), which it caches as a negative entry.
load_global_config(c, use_cache, o) ==
    IF use_cache /\ c.global_config # CfgAbsent
    THEN [val |-> c.global_config, raised |-> FALSE, cache |-> c,
          kvcalls |-> 0, consistent |-> FALSE]
    ELSE LET r == _get_item(kvGlobal # CfgNoItem, kvGlobal, o, ~use_cache) IN
         IF r.raised
         THEN [val |-> CfgNone, raised |-> TRUE, cache |-> c,
               kvcalls |-> 1, consistent |-> r.consistent]
         ELSE IF r.found /\ r.item # CfgMalformed
         THEN [val |-> r.item, raised |-> FALSE,
               cache |-> [c EXCEPT !.global_config = r.item],
               kvcalls |-> 1, consistent |-> r.consistent]
         ELSE [val |-> CfgNone, raised |-> FALSE,
               cache |-> [c EXCEPT !.global_config = CfgNone],
               kvcalls |-> 1, consistent |-> r.consistent]

\* load_all_agent_cards(use_cache): cards = the cards the type index returns
\* ({} on ClientError); cached under "all_cards".
load_all_agent_cards(c, use_cache, cards, o) ==
    IF use_cache /\ c.all_cards # {Absent}
    THEN [val |-> c.all_cards, raised |-> FALSE, cache |-> c, kvcalls |-> 0]
    ELSE IF o = "timeout"
    THEN [val |-> {}, raised |-> TRUE, cache |-> c, kvcalls |-> 1]
    ELSE LET got == IF o = "ok" THEN cards ELSE {} IN
         [val |-> got, raised |-> FALSE,
          cache |-> [c EXCEPT !.all_cards = got], kvcalls |-> 1]

\* The items read by load_agent_card, load_visualization_map and
\* load_visualization_template (one template id per agent)
DocKinds == {"card", "viz_map", "viz_template"}
\* An item's content: JSON of a dict, or a string json.loads rejects
Docs == {"doc1", "doc2"}
DocMalformed == "not json"

\* The body shared by load_agent_card, load_visualization_map and
\* load_visualization_template: cache lookup, _get_item(pk, sk) with its
\* default consistent_read=False, json.loads, and the result (None included)
\* cached under the key
LoadDocItem(c, kind, a, use_cache, o) ==
    IF use_cache /\ c.docs[kind][a] # Absent
    THEN [val |-> c.docs[kind][a], raised |-> FALSE, cache |-> c,
          kvcalls |-> 0, consistent |-> FALSE]
    ELSE LET r == _get_item(kv_docs[kind][a] # NoItem, kv_docs[kind][a], o,
                            FALSE) IN
         IF r.raised
         THEN [val |-> None, raised |-> TRUE, cache |-> c,
               kvcalls |-> 1, consistent |-> r.consistent]
         ELSE IF r.found /\ r.item # DocMalformed
         THEN [val |-> r.item, raised |-> FALSE,
               cache |-> [c EXCEPT !.docs[kind][a] = r.item],
               kvcalls |-> 1, consistent |-> r.consistent]
         ELSE [val |-> None, raised |-> FALSE,
               cache |-> [c EXCEPT !.docs[kind][a] = None],
               kvcalls |-> 1, consistent |-> r.consistent]

load_agent_card(c, a, use_cache, o) ==
    LoadDocItem(c, "card", a, use_cache, o)
load_visualization_map(c, a, use_cache, o) ==
    LoadDocItem(c, "viz_map", a, use_cache, o)
load_visualization_template(c, a, use_cache, o) ==
    LoadDocItem(c, "viz_template", a, use_cache, o)

EmptyDdbCache ==
    [instruction |-> [a \in Agents |-> Absent],
     global_config |-> CfgAbsent,
     all_cards |-> {Absent},
     docs |-> [k \in DocKinds |-> [a \in Agents |-> Absent]]]

\* clear_config_cache(key) for an instruction key, and clear_config_cache()
ddb_clear_cache_key(c, a) == [c EXCEPT !.instruction[a] = Absent]

-----------------------------------------------------------------------------
(* handler.py: the accessors                                                *)

\* inject_data_into_placeholder on a placeholder-free text
inject_data_into_placeholder(text, a) == text

\* Variant of load_from_s3 that never finds the object.
LoadFromS3FindsNothing(a, o) == None

\* load_from_s3: the object's text, None when missing or on any exception
load_from_s3(a, o) == IF o = "ok" /\ s3[a] # NoItem THEN s3[a] ELSE None

\* The filesystem fallback of load_instructions_for_agent (lines 527-562)
LoadFromFilesystem(ic, a, o) ==
    IF o = "error" THEN [val |-> CouldntLoad, icache |-> ic]
    ELSE IF o = "nodir" THEN [val |-> NoLibraryDir, icache |-> ic]
    ELSE IF fs[a] # NoItem
    THEN LET content == inject_data_into_placeholder(Strip(fs[a]), a) IN
         [val |-> content, icache |-> [ic EXCEPT ![a] = content]]
    ELSE [val |-> FileNotFound, icache |-> ic]

\* Variant of load_instructions_for_agent that does not store a DynamoDB
\* answer in the handler cache.
LoadInstructionsNoHandlerCacheWrite(ic, c, a, use_cache, ok, os3, ofs) ==
    IF use_cache /\ ic[a] # Absent
    THEN [val |-> ic[a], raised |-> FALSE, icache |-> ic, cache |-> c,
          io |-> NoIo, consistent |-> FALSE, tier |-> "handler_cache"]
    ELSE
    LET d == load_agent_instructions(c, a, use_cache, ok) IN
    IF d.raised
    THEN [val |-> None, raised |-> TRUE, icache |-> ic, cache |-> d.cache,
          io |-> [NoIo EXCEPT !.kv = d.kvcalls], consistent |-> d.consistent,
          tier |-> "raised"]
    ELSE IF Truthy(d.val)
    THEN LET content == inject_data_into_placeholder(Strip(d.val), a) IN
         [val |-> content, raised |-> FALSE,
          icache |-> ic, cache |-> d.cache,
          io |-> [NoIo EXCEPT !.kv = d.kvcalls], consistent |-> d.consistent,
          tier |-> "kv"]
    ELSE
    LET fromS3 == load_from_s3(a, os3) IN
    IF Truthy(fromS3)
    THEN LET content == inject_data_into_placeholder(Strip(fromS3), a) IN
         [val |-> content, raised |-> FALSE,
          icache |-> [ic EXCEPT ![a] = content], cache |-> d.cache,
          io |-> [kv |-> d.kvcalls, s3 |-> 1, fs |-> 0],
          consistent |-> d.consistent, tier |-> "s3"]
    ELSE
    LET f == LoadFromFilesystem(ic, a, ofs) IN
         [val |-> f.val, raised |-> FALSE, icache |-> f.icache,
          cache |-> d.cache,
          io |-> [kv |-> d.kvcalls, s3 |-> 1, fs |-> 1],
          consistent |-> d.consistent, tier |-> "fs"]

\* load_instructions_for_agent(agent_name, use_cache) on the handler cache ic
\* and the loader cache c; ok, os3, ofs are the outcomes of the store calls
\* it makes.  tier names the source that answered.
load_instructions_for_agent(ic, c, a, use_cache, ok, os3, ofs) ==
    IF use_cache /\ ic[a] # Absent
    THEN [val |-> ic[a], raised |-> FALSE, icache |-> ic, cache |-> c,
          io |-> NoIo, consistent |-> FALSE, tier |-> "handler_cache"]
    ELSE
    LET d == load_agent_instructions(c, a, use_cache, ok) IN
    IF d.raised
    THEN [val |-> None, raised |-> TRUE, icache |-> ic, cache |-> d.cache,
          io |-> [NoIo EXCEPT !.kv = d.kvcalls], consistent |-> d.consistent,
          tier |-> "raised"]
    ELSE IF Truthy(d.val)
    THEN LET content == inject_data_into_placeholder(Strip(d.val), a) IN
         [val |-> content, raised |-> FALSE,
          icache |-> [ic EXCEPT ![a] = content], cache |-> d.cache,
          io |-> [NoIo EXCEPT !.kv = d.kvcalls], consistent |-> d.consistent,
          tier |-> "kv"]
    ELSE
    LET fromS3 == load_from_s3(a, os3) IN
    IF Truthy(fromS3)
    THEN LET content == inject_data_into_placeholder(Strip(fromS3), a) IN
         [val |-> content, raised |-> FALSE,
          icache |-> [ic EXCEPT ![a] = content], cache |-> d.cache,
          io |-> [kv |-> d.kvcalls, s3 |-> 1, fs |-> 0],
          consistent |-> d.consistent, tier |-> "s3"]
    ELSE
    LET f == LoadFromFilesystem(ic, a, ofs) IN
         [val |-> f.val, raised |-> FALSE, icache |-> f.icache,
          cache |-> d.cache,
          io |-> [kv |-> d.kvcalls, s3 |-> 1, fs |-> 1],
          consistent |-> d.consistent, tier |-> "fs"]

\* load_configs("global_configuration.json", use_cache) on the handler cache
\* cc and the loader cache c: the dict, or {} when DynamoDB gave none.
load_configs(cc, c, use_cache, o) ==
    IF use_cache /\ cc # CfgAbsent
    THEN [val |-> cc, raised |-> FALSE, ccache |-> cc, cache |-> c,
          io |-> NoIo, consistent |-> FALSE, loaded |-> TRUE]
    ELSE
    LET d == load_global_config(c, use_cache, o) IN
    IF d.raised
    THEN [val |-> EmptyDict, raised |-> TRUE, ccache |-> cc, cache |-> d.cache,
          io |-> [NoIo EXCEPT !.kv = d.kvcalls], consistent |-> d.consistent,
          loaded |-> FALSE]
    ELSE IF d.val # CfgNone
    THEN [val |-> d.val, raised |-> FALSE, ccache |-> d.val, cache |-> d.cache,
          io |-> [NoIo EXCEPT !.kv = d.kvcalls], consistent |-> d.consistent,
          loaded |-> TRUE]
    ELSE [val |-> EmptyDict, raised |-> FALSE, ccache |-> cc, cache |-> d.cache,
          io |-> [NoIo EXCEPT !.kv = d.kvcalls], consistent |-> d.consistent,
          loaded |-> FALSE]

-----------------------------------------------------------------------------
(* SpecCfg: calls of the accessors, writes to the stores, invalidation      *)

\* obs of a call that returns nothing the properties read.  after_clear of
\* a load_instructions_for_agent call: the agent the call before it,
\* a clear_instructions_cache, named ("-": it was another call)
ObsOf(name) ==
    [op |-> name, agent |-> "-", use_cache |-> TRUE, ko |-> "ok",
     s3o |-> "-", val |-> None, cfg |-> CfgNone, raised |-> FALSE, io |-> NoIo,
     consistent |-> FALSE, preH |-> FALSE, pre |-> "absent",
     stale |-> FALSE, tier |-> "-", after_clear |-> "-"]

\* Class of a loader-cache entry: absent, negative (None), an item with
\* empty content, or positive
EntryClass(e) ==
    IF e = Absent THEN "absent"
    ELSE IF e = None THEN "neg"
    ELSE IF e = "" THEN "empty" ELSE "pos"
CfgEntryClass(e) ==
    IF e = CfgAbsent THEN "absent" ELSE IF e = CfgNone THEN "neg" ELSE "pos"

\* Some cache tier holds, for the key, an entry that is not what the KV
\* store holds now (a stale value, or a negative entry for a stored item).
StaleInstructions(a) ==
    \/ /\ ddb_config_cache.instruction[a] # Absent
       /\ ddb_config_cache.instruction[a] #
            (IF kv[a] = NoItem THEN None ELSE kv[a])
    \/ /\ instructions_cache[a] # Absent
       /\ (kv[a] = NoItem \/ instructions_cache[a] # Strip(kv[a]))
StaleConfig ==
    \/ /\ ddb_config_cache.global_config # CfgAbsent
       /\ ddb_config_cache.global_config #
            (IF kvGlobal \in {CfgNoItem, CfgMalformed} THEN CfgNone ELSE kvGlobal)
    \/ /\ config_cache # CfgAbsent
       /\ config_cache # kvGlobal

\* The outcome of a store call that is not made is not an input of the call:
\* it is pinned to "ok".
UsedOutcomes(io, ok, os3, ofs) ==
    /\ io.kv = 0 => ok = "ok"
    /\ io.s3 = 0 => os3 = "ok"
    /\ io.fs = 0 => ofs = "ok"

\* A request calls load_instructions_for_agent(a, use_cache)
LoadInstructions(a, use_cache) ==
    \E ok \in KvOutcomes, os3 \in S3Outcomes, ofs \in FsOutcomes :
      LET r == load_instructions_for_agent(instructions_cache,
                   ddb_config_cache, a, use_cache, ok, os3, ofs) IN
      /\ UsedOutcomes(r.io, ok, os3, ofs)
      /\ instructions_cache' = r.icache
      /\ ddb_config_cache' = r.cache
      /\ obs' = [ObsOf("load_instructions_for_agent") EXCEPT
                   !.agent = a, !.use_cache = use_cache,
                   !.ko = IF r.io.kv > 0 THEN ok ELSE "-",
                   !.s3o = IF r.io.s3 > 0 THEN os3 ELSE "-",
                   !.val = r.val, !.raised = r.raised, !.io = r.io,
                   !.consistent = r.consistent,
                   !.preH = (instructions_cache[a] # Absent),
                   !.pre = EntryClass(ddb_config_cache.instruction[a]),
                   !.stale = StaleInstructions(a),
                   !.tier = r.tier,
                   !.after_clear =
                       IF obs.op = "clear_instructions_cache"
                       THEN obs.agent ELSE "-"]
      /\ UNCHANGED <<kv, kvGlobal, s3, fs, cache_initialized, config_cache,
                     GLOBAL_CONFIG, initialization_complete, rpc, rnames,
                     stats>>
    /\ UNCHANGED notCfgVars

\* A request calls load_configs("global_configuration.json", use_cache)
LoadConfigs(use_cache) ==
    \E o \in KvOutcomes :
      LET r == load_configs(config_cache, ddb_config_cache, use_cache, o) IN
      /\ UsedOutcomes(r.io, o, "ok", "ok")
      /\ config_cache' = r.ccache
      /\ ddb_config_cache' = r.cache
      /\ obs' = [ObsOf("load_configs") EXCEPT
                   !.use_cache = use_cache,
                   !.ko = IF r.io.kv > 0 THEN o ELSE "-", !.cfg = r.val,
                   !.raised = r.raised, !.io = r.io,
                   !.consistent = r.consistent,
                   !.preH = (config_cache # CfgAbsent),
                   !.pre = CfgEntryClass(ddb_config_cache.global_config),
                   !.stale = StaleConfig]
      /\ UNCHANGED <<kv, kvGlobal, s3, fs, cache_initialized,
                     instructions_cache, GLOBAL_CONFIG,
                     initialization_complete, rpc, rnames, stats>>
    /\ UNCHANGED notCfgVars

\* get_agent_config: loads GLOBAL_CONFIG when it is falsy
GetAgentConfig ==
    /\ ~GLOBAL_CONFIG.truthy
    /\ \E o \in KvOutcomes :
         LET r == load_configs(config_cache, ddb_config_cache, TRUE, o) IN
         /\ UsedOutcomes(r.io, o, "ok", "ok")
         /\ config_cache' = r.ccache
         /\ ddb_config_cache' = r.cache
         /\ GLOBAL_CONFIG' = IF r.raised THEN GLOBAL_CONFIG ELSE r.val
         /\ obs' = [ObsOf("get_agent_config") EXCEPT
                      !.ko = IF r.io.kv > 0 THEN o ELSE "-",
                      !.cfg = r.val, !.raised = r.raised,
                      !.io = r.io,
                      !.preH = (config_cache # CfgAbsent),
                      !.pre = CfgEntryClass(ddb_config_cache.global_config),
                      !.stale = StaleConfig]
    /\ UNCHANGED <<kv, kvGlobal, s3, fs, cache_initialized,
                   instructions_cache, initialization_complete, rpc, rnames,
                   stats>>
    /\ UNCHANGED notCfgVars

\* put_agent_instructions(a, content): stored unless the call fails. The
\* history notes a non-empty value stored while the loader cache holds a
\* negative entry for the key.
PutAgentInstructions(a, content) ==
    /\ \E o \in {"ok", "client_error"} :
         /\ kv' = IF o = "ok" THEN [kv EXCEPT ![a] = content] ELSE kv
         /\ obs' = [ObsOf("put_agent_instructions") EXCEPT
                      !.agent = a, !.ko = o]
         /\ written_over_neg' =
               IF o = "ok" /\ a = UnderTest
               THEN [written_over_neg EXCEPT !.instruction =
                       IF content # "" /\ ddb_config_cache.instruction[a] = None
                       THEN "written" ELSE "no"]
               ELSE written_over_neg
    /\ UNCHANGED <<kvGlobal, s3, fs, ddb_config_cache, cache_initialized,
                   instructions_cache, config_cache, GLOBAL_CONFIG,
                   initialization_complete, rpc, rnames, stats>>
    /\ UNCHANGED notCfgNorHistory

\* put_global_config(config), or a malformed item written by another tool
PutGlobalConfig(item) ==
    /\ kvGlobal' = item
    /\ kvGlobal' # kvGlobal
    /\ obs' = ObsOf("put_global_config")
    /\ UNCHANGED <<kv, s3, fs, ddb_config_cache, cache_initialized,
                   instructions_cache, config_cache, GLOBAL_CONFIG,
                   initialization_complete, rpc, rnames, stats>>
    /\ UNCHANGED notCfgVars

\* clear_instructions_cache(agent_name)
ClearInstructionsCache(a) ==
    /\ instructions_cache[a] # Absent
    /\ instructions_cache' = [instructions_cache EXCEPT ![a] = Absent]
    /\ obs' = [ObsOf("clear_instructions_cache") EXCEPT !.agent = a]
    /\ UNCHANGED <<kv, kvGlobal, s3, fs, ddb_config_cache, cache_initialized,
                   config_cache, GLOBAL_CONFIG, initialization_complete, rpc,
                   rnames, stats>>
    /\ UNCHANGED notCfgVars

\* dynamodb_config_loader.clear_config_cache(f"instruction:{a}")
DdbClearCacheKey(a) ==
    /\ ddb_config_cache.instruction[a] # Absent
    /\ ddb_config_cache' = ddb_clear_cache_key(ddb_config_cache, a)
    /\ obs' = [ObsOf("ddb_clear_cache") EXCEPT !.agent = a]
    /\ UNCHANGED <<kv, kvGlobal, s3, fs, cache_initialized,
                   instructions_cache, config_cache, GLOBAL_CONFIG,
                   initialization_complete, rpc, rnames, stats>>
    /\ UNCHANGED notCfgVars

\* A caller loads the card, visualization map or visualization template of
\* agent a through the loader
LoadDoc(kind, a, use_cache) ==
    /\ \E o \in KvOutcomes :
         LET r == CASE kind = "card" ->
                         load_agent_card(ddb_config_cache, a, use_cache, o)
                    [] kind = "viz_map" ->
                         load_visualization_map(ddb_config_cache, a,
                                                use_cache, o)
                    [] OTHER ->
                         load_visualization_template(ddb_config_cache, a,
                                                     use_cache, o)
         IN
         /\ r.kvcalls = 0 => o = "ok"
         /\ ddb_config_cache' = r.cache
         /\ obs' = [ObsOf(kind) EXCEPT
                      !.agent = a, !.use_cache = use_cache,
                      !.ko = IF r.kvcalls > 0 THEN o ELSE "-",
                      !.val = r.val, !.raised = r.raised,
                      !.io = [NoIo EXCEPT !.kv = r.kvcalls],
                      !.consistent = r.consistent,
                      !.pre = EntryClass(ddb_config_cache.docs[kind][a])]
    /\ UNCHANGED <<kv, kvGlobal, s3, fs, cache_initialized,
                   instructions_cache, config_cache, GLOBAL_CONFIG,
                   initialization_complete, rpc, rnames, stats>>
    /\ UNCHANGED notCfgVars

\* put_item of a card, visualization map or template (put_agent_card,
\* put_visualization_map, put_visualization_template, or an item written by
\* another tool)
PutDoc(kind, a, item) ==
    /\ kv_docs' = [kv_docs EXCEPT ![kind][a] = item]
    /\ obs' = [ObsOf("put_item") EXCEPT !.agent = a]
    /\ UNCHANGED <<kv, kvGlobal, s3, fs, ddb_config_cache, cache_initialized,
                   instructions_cache, config_cache, GLOBAL_CONFIG,
                   initialization_complete, rpc, rnames, stats>>
    /\ UNCHANGED <<key_under_test, ctxVars, memVars, vizVars, pending,
                   written_over_neg, overlapVars>>

-----------------------------------------------------------------------------
(* handler.py: refresh_all_caches, one action per step of its body          *)

\* list(d.keys()) restricted to S, in dict order
KeysIn(S) == LET In(x) == x \in S IN SelectSeq(AgentOrder, In)

Cached(ic) == {a \in Agents : ic[a] # Absent}

\* The stats dict.  errors = agents with an "Instructions <agent>: ..."
\* entry; failed / answered record, per agent, how the step-4 read ended.
NoStats ==
    [phase |-> "none", success |-> FALSE, fatal |-> FALSE,
     raised_to_caller |-> FALSE, errors |-> {}, cards_error |-> FALSE,
     global_config |-> 0, agent_configs_found |-> 0, names |-> {},
     instructions_from_ddb |-> 0, fallback_count |-> 0,
     total_instructions |-> 0, instructions_from_fallback |-> 0,
     cards |-> 0, got_global |-> FALSE, failed |-> {}, answered |-> {}]

\* The outer "except Exception" (lines 761-771): the report is returned
\* with success False and a "Fatal error" entry.
RefreshFatal(st) ==
    [st EXCEPT !.phase = "returned", !.success = FALSE, !.fatal = TRUE]

\* Variant of steps 1-2 that leaves the DynamoDB loader's cache as it is.
RefreshClearKeepsLoaderCache ==
    /\ rpc = "idle"
    /\ config_cache' = CfgAbsent
    /\ instructions_cache' = [a \in Agents |-> Absent]
    /\ cache_initialized' = FALSE
    /\ initialization_complete' = FALSE
    /\ GLOBAL_CONFIG' = EmptyDict
    /\ stats' = [NoStats EXCEPT !.phase = "running"]
    /\ rnames' = <<>>
    /\ rpc' = "global"
    /\ obs' = ObsOf("refresh_all_caches")
    /\ UNCHANGED <<kv, kvGlobal, s3, fs, ddb_config_cache>>
    /\ UNCHANGED notCfgVars

\* Steps 1-2 (lines 666-693): clear every cache, reset the flags
RefreshClear ==
    /\ rpc = "idle"
    /\ config_cache' = CfgAbsent
    /\ instructions_cache' = [a \in Agents |-> Absent]
    /\ ddb_config_cache' = EmptyDdbCache
    /\ cache_initialized' = FALSE
    /\ initialization_complete' = FALSE
    /\ GLOBAL_CONFIG' = EmptyDict
    /\ stats' = [NoStats EXCEPT !.phase = "running"]
    /\ rnames' = <<>>
    /\ rpc' = "global"
    /\ obs' = ObsOf("refresh_all_caches")
    /\ UNCHANGED <<kv, kvGlobal, s3, fs>>
    /\ UNCHANGED notCfgVars

\* Step 3 (lines 695-703): reload global configuration, consistent read
RefreshGlobal ==
    /\ rpc = "global"
    /\ \E o \in KvOutcomes :
         LET r == load_configs(config_cache, ddb_config_cache, FALSE, o) IN
         /\ config_cache' = r.ccache
         /\ ddb_config_cache' = r.cache
         /\ IF r.raised
            THEN /\ stats' = RefreshFatal(stats)
                 /\ rpc' = "idle"
                 /\ UNCHANGED <<GLOBAL_CONFIG, rnames>>
            ELSE /\ GLOBAL_CONFIG' = r.val
                 /\ rnames' = KeysIn(r.val.agents)
                 /\ stats' = [stats EXCEPT
                                !.global_config = 1,
                                !.agent_configs_found = Cardinality(r.val.agents),
                                !.names = r.val.agents,
                                !.got_global = r.loaded]
                 /\ rpc' = "instr"
    /\ obs' = ObsOf("refresh_all_caches")
    /\ UNCHANGED <<kv, kvGlobal, s3, fs, cache_initialized,
                   instructions_cache, initialization_complete>>
    /\ UNCHANGED notCfgVars

\* One iteration of the step-4 loop (lines 709-722)
RefreshInstructionsBody(st, ic, a, d) ==
    IF d.raised
    THEN [stats |-> [st EXCEPT !.errors = @ \cup {a}], icache |-> ic]
    ELSE IF Truthy(d.val)
    THEN [stats |-> [st EXCEPT !.instructions_from_ddb = @ + 1],
          icache |-> [ic EXCEPT
                        ![a] = inject_data_into_placeholder(Strip(d.val), a)]]
    ELSE [stats |-> st, icache |-> ic]

RefreshInstructions ==
    /\ rpc = "instr"
    /\ rnames # <<>>
    /\ \E o \in KvOutcomes :
         LET a == Head(rnames)
             d == load_agent_instructions(ddb_config_cache, a, FALSE, o)
             b == RefreshInstructionsBody(stats, instructions_cache, a, d)
         IN
         /\ ddb_config_cache' = d.cache
         /\ instructions_cache' = b.icache
         /\ stats' = [b.stats EXCEPT
                        !.failed = IF o # "ok" THEN @ \cup {a} ELSE @,
                        !.answered = IF o = "ok" THEN @ \cup {a} ELSE @]
    /\ rnames' = Tail(rnames)
    /\ obs' = ObsOf("refresh_all_caches")
    /\ UNCHANGED <<kv, kvGlobal, s3, fs, cache_initialized, config_cache,
                   GLOBAL_CONFIG, initialization_complete, rpc>>
    /\ UNCHANGED notCfgVars

\* Variant of PreloadNames without the early return for "nothing missing".
PreloadNamesAlways(ic, cfg, cardNames, ofs) ==
    LET missing == {a \in cfg.agents : ic[a] = Absent}
        fromCards == {a \in cardNames : a \notin missing /\ ic[a] = Absent}
        fromDir == IF ofs = "ok"
                   THEN {a \in Agents : fs[a] # NoItem /\ a \notin missing
                                        /\ a \notin fromCards /\ ic[a] = Absent}
                   ELSE {}
    IN KeysIn(missing) \o KeysIn(fromCards) \o KeysIn(fromDir)

\* Step 5, preload_all_agent_instructions up to its loop (lines 913-962):
\* cardNames = agents with a card object listed in S3, ofs = outcome of
\* listing the local library directory.
PreloadNames(ic, cfg, cardNames, ofs) ==
    LET missing == {a \in cfg.agents : ic[a] = Absent}
        fromCards == {a \in cardNames : a \notin missing /\ ic[a] = Absent}
        fromDir == IF ofs = "ok"
                   THEN {a \in Agents : fs[a] # NoItem /\ a \notin missing
                                        /\ a \notin fromCards /\ ic[a] = Absent}
                   ELSE {}
    IN IF missing = {} THEN <<>>
       ELSE KeysIn(missing) \o KeysIn(fromCards) \o KeysIn(fromDir)

RefreshPreloadBegin ==
    /\ rpc = "instr"
    /\ rnames = <<>>
    /\ \E o \in KvOutcomes, cardNames \in SUBSET Agents, ofs \in FsOutcomes :
         LET r == IF GLOBAL_CONFIG.truthy
                  THEN [val |-> GLOBAL_CONFIG, raised |-> FALSE,
                        ccache |-> config_cache, cache |-> ddb_config_cache]
                  ELSE load_configs(config_cache, ddb_config_cache, TRUE, o)
             names == PreloadNames(instructions_cache, r.val, cardNames, ofs)
             missing == {a \in r.val.agents : instructions_cache[a] = Absent}
         IN
         /\ config_cache' = r.ccache
         /\ ddb_config_cache' = r.cache
         /\ IF r.raised \/ (missing # {} /\ ofs = "error")
            THEN /\ stats' = RefreshFatal(stats)
                 /\ rpc' = "idle"
                 /\ GLOBAL_CONFIG' = IF r.raised THEN GLOBAL_CONFIG ELSE r.val
                 /\ UNCHANGED rnames
            ELSE /\ GLOBAL_CONFIG' = r.val
                 /\ rnames' = names
                 /\ stats' = [stats EXCEPT !.fallback_count =
                                Cardinality(Cached(instructions_cache))]
                 /\ rpc' = "preload"
    /\ obs' = ObsOf("refresh_all_caches")
    /\ UNCHANGED <<kv, kvGlobal, s3, fs, cache_initialized,
                   instructions_cache, initialization_complete>>
    /\ UNCHANGED notCfgVars

\* One iteration of the preload loop (lines 963-973)
RefreshPreloadLoad ==
    /\ rpc = "preload"
    /\ rnames # <<>>
    /\ LET a == Head(rnames) IN
       IF instructions_cache[a] # Absent
       THEN UNCHANGED <<instructions_cache, ddb_config_cache, stats>>
       ELSE \E ok \in KvOutcomes, os3 \in S3Outcomes, ofs \in FsOutcomes :
              LET r == load_instructions_for_agent(instructions_cache,
                           ddb_config_cache, a, FALSE, ok, os3, ofs) IN
              /\ instructions_cache' = r.icache
              /\ ddb_config_cache' = r.cache
              /\ stats' = IF ~r.raised /\ Truthy(r.val)
                             /\ r.val \notin CouldntLoadTexts
                          THEN [stats EXCEPT !.fallback_count = @ + 1]
                          ELSE stats
    /\ rnames' = Tail(rnames)
    /\ obs' = ObsOf("refresh_all_caches")
    /\ UNCHANGED <<kv, kvGlobal, s3, fs, cache_initialized, config_cache,
                   GLOBAL_CONFIG, initialization_complete, rpc>>
    /\ UNCHANGED notCfgVars

\* Steps 5 (end) and 6, and the return (lines 730-759)
RefreshFinish ==
    /\ rpc = "preload"
    /\ rnames = <<>>
    /\ \E o \in KvOutcomes, cards \in SUBSET Agents :
         LET r == load_all_agent_cards(ddb_config_cache, FALSE, cards, o) IN
         /\ ddb_config_cache' = r.cache
         /\ stats' = [stats EXCEPT
                !.total_instructions = Cardinality(Cached(instructions_cache)),
                !.instructions_from_fallback =
                    IF stats.fallback_count > stats.instructions_from_ddb
                    THEN stats.fallback_count - stats.instructions_from_ddb
                    ELSE 0,
                !.cards = IF r.raised THEN 0 ELSE Cardinality(r.val),
                !.cards_error = r.raised,
                !.success = TRUE,
                !.phase = "returned"]
    /\ initialization_complete' = TRUE
    /\ rpc' = "idle"
    /\ obs' = ObsOf("refresh_all_caches")
    /\ written_over_neg' = [k \in DOMAIN written_over_neg |->
                              IF written_over_neg[k] = "written"
                              THEN "refreshed" ELSE written_over_neg[k]]
    /\ UNCHANGED <<kv, kvGlobal, s3, fs, cache_initialized,
                   instructions_cache, config_cache, GLOBAL_CONFIG, rnames>>
    /\ UNCHANGED notCfgNorHistory

-----------------------------------------------------------------------------
(* A Relaxed load_instructions_for_agent in a tool thread (invoke_specialist *)
(* -> create_agent), running while the event loop serves other requests.    *)
(* No lock guards the caches: the call is two steps, the store reads and    *)
(* then the cache writes, and refresh_all_caches may run between them.      *)

\* centry / hentry: what the call will store in the loader cache and in the
\* handler cache (Absent: no write); read_phase: stats.phase when the store
\* was read
NoPending ==
    [state |-> "none", centry |-> Absent, hentry |-> Absent, val |-> None,
     read_phase |-> "none"]

\* Both caches miss and the GetItem (then S3 and the filesystem when it gave
\* nothing) is answered
RelaxedGetBegin(a) ==
    /\ pending.state # "read"
    /\ \E ok \in {"ok", "client_error"}, os3 \in S3Outcomes,
          ofs \in FsOutcomes :
         LET r == load_instructions_for_agent(instructions_cache,
                      ddb_config_cache, a, TRUE, ok, os3, ofs) IN
         /\ UsedOutcomes(r.io, ok, os3, ofs)
         /\ r.io.kv > 0
         /\ pending' = [state |-> "read",
                        centry |-> r.cache.instruction[a],
                        hentry |-> r.icache[a],
                        val |-> r.val,
                        read_phase |-> stats.phase]
    /\ UNCHANGED <<cfgVars, key_under_test, ctxVars, memVars, vizVars,
                   written_over_neg, kv_docs, overlapVars>>

\* _config_cache[cache_key] = content (loader lines 194 and 197), then
\* _instructions_cache[agent_name] = content in the handler, then the return
RelaxedGetEnd(a) ==
    /\ pending.state = "read"
    /\ ddb_config_cache' =
          [ddb_config_cache EXCEPT !.instruction[a] = pending.centry]
    /\ instructions_cache' =
          IF pending.hentry # Absent
          THEN [instructions_cache EXCEPT ![a] = pending.hentry]
          ELSE instructions_cache
    /\ pending' = [pending EXCEPT !.state = "written"]
    /\ obs' = [ObsOf("load_instructions_for_agent") EXCEPT
                 !.agent = a, !.val = pending.val]
    /\ UNCHANGED <<kv, kvGlobal, s3, fs, cache_initialized, config_cache,
                   GLOBAL_CONFIG, initialization_complete, rpc, rnames,
                   stats>>
    /\ UNCHANGED <<key_under_test, ctxVars, memVars, vizVars,
                   written_over_neg, kv_docs, overlapVars>>

-----------------------------------------------------------------------------
(* visualization_loader.py: the module-level visualization map cache        *)

\* Parsed visualization maps (non-empty dicts)
VizMaps == {"map1", "map2"}

\* VisualizationLoader(use_cache).load_agent_visualization_map(a) on cache
\* vc, with the S3 bucket configured: S3 first (any exception reads as no
\* object), the local file when S3 gave nothing, and the result cached even
\* when it is None.
load_agent_visualization_map(vc, a, use_cache, os3, ofs) ==
    IF use_cache /\ vc[a] # Absent
    THEN [val |-> vc[a], cache |-> vc, io |-> NoIo]
    ELSE LET fromS3 == IF os3 = "ok" /\ viz_s3[a] # NoItem
                       THEN viz_s3[a] ELSE None
             useFs == fromS3 = None
             data == IF ~useFs THEN fromS3
                     ELSE IF ofs = "ok" /\ viz_fs[a] # NoItem
                     THEN viz_fs[a] ELSE None
         IN [val |-> data, cache |-> [vc EXCEPT ![a] = data],
             io |-> [kv |-> 0, s3 |-> 1, fs |-> IF useFs THEN 1 ELSE 0]]

\* A request loads the visualization map of agent a
LoadAgentVisualizationMap(a, use_cache) ==
    /\ \E os3 \in S3Outcomes, ofs \in {"ok", "error"} :
         LET r == load_agent_visualization_map(visualization_map_cache, a,
                                               use_cache, os3, ofs) IN
         /\ UsedOutcomes(r.io, "ok", os3, ofs)
         /\ visualization_map_cache' = r.cache
         /\ obs' = [ObsOf("load_agent_visualization_map") EXCEPT
                      !.agent = a, !.use_cache = use_cache, !.val = r.val,
                      !.ko = IF r.io.s3 > 0 THEN os3 ELSE "-",
                      !.io = r.io,
                      !.pre = EntryClass(visualization_map_cache[a])]
    /\ UNCHANGED <<kv, kvGlobal, s3, fs, ddb_config_cache, cache_initialized,
                   instructions_cache, config_cache, GLOBAL_CONFIG,
                   initialization_complete, rpc, rnames, stats>>
    /\ UNCHANGED <<key_under_test, ctxVars, memVars, viz_s3, viz_fs,
                   written_over_neg, pending, kv_docs, overlapVars>>

\* A deployment stores the visualization map m of agent a in S3. The history
\* notes a map stored while the cache holds a negative entry for the agent.
WriteVisualizationMap(a, m) ==
    /\ viz_s3' = [viz_s3 EXCEPT ![a] = m]
    /\ written_over_neg' =
          IF a = UnderTest
          THEN [written_over_neg EXCEPT !.viz_map =
                  IF visualization_map_cache[a] = None
                  THEN "written" ELSE "no"]
          ELSE written_over_neg
    /\ obs' = [ObsOf("write_visualization_map") EXCEPT !.agent = a]
    /\ UNCHANGED <<kv, kvGlobal, s3, fs, ddb_config_cache, cache_initialized,
                   instructions_cache, config_cache, GLOBAL_CONFIG,
                   initialization_complete, rpc, rnames, stats>>
    /\ UNCHANGED <<key_under_test, ctxVars, memVars, visualization_map_cache,
                   viz_fs, pending, kv_docs, overlapVars>>

-----------------------------------------------------------------------------
(* handler.py: agent_invocation and the per-session context store           *)

Sessions == {"s1", "s2"}

\* trim_context_messages(saved_messages, 8) at the context save
NSwitch == 8
\* An agent run appends 0, 1 or MaxAppend messages (prompt, tool uses and
\* results, answer); a behaviour has at most MaxRequests requests.
MaxAppend == 8
MaxRequests == 3
AppendCounts == {0, 1, MaxAppend}

\* trim_context_messages(messages, max_messages)
trim_context_messages(msgs, max_messages) ==
    IF Len(msgs) <= max_messages THEN msgs
    ELSE SubSeq(msgs, Len(msgs) - max_messages + 1, Len(msgs))

\* handler.agent: None, or a strands Agent.  An Agent keeps the list it is
\* given as messages=...; seeded_from = the key of the agent_context_store
\* entry whose list object is the agent's agent.messages (<<>>: a list of
\* its own).
NoAgent ==
    [live |-> FALSE, name |-> "-", messages |-> <<>>, seeded_from |-> <<>>]

\* agent_context_store[key][name] = msgs, creating the session entry
StorePut(store, key, name, msgs) ==
    [s \in DOMAIN store \cup {key} |->
        IF s = key
        THEN [n \in (IF key \in DOMAIN store THEN DOMAIN store[key] ELSE {})
                      \cup {name} |->
                 IF n = name THEN msgs ELSE store[key][n]]
        ELSE store[s]]

StoreHas(store, key, name) ==
    key \in DOMAIN store /\ name \in DOMAIN store[key]

\* GenericAgent.create_orchestrator(..., saved_messages): the new Agent (ok)
\* or None (an exception inside is logged and None returned).  A non-empty
\* saved_messages is handed to Agent(messages=...) as the object it is.
create_orchestrator(name, key, has, saved_messages, ok) ==
    IF ~ok THEN NoAgent
    ELSE IF has /\ saved_messages # <<>>
    THEN [live |-> TRUE, name |-> name, messages |-> saved_messages,
          seeded_from |-> <<key, name>>]
    ELSE [live |-> TRUE, name |-> name, messages |-> <<>>,
          seeded_from |-> <<>>]

\* The turns nextTurn .. nextTurn+k-1
FreshTurns(k) == [i \in 1..k |-> nextTurn + i - 1]

NoLeft == [valid |-> FALSE, session |-> "-", msgs |-> <<>>]

\* agent_invocation with a prompt: session_id sid, agent_name name,
\* refresh_cache flag, outcome of create_orchestrator, and the k messages
\* the agent run appends to agent.messages.
Invoke(sid, name, refresh, createOk, k) ==
    LET \* lines 2341-2349: refresh_all_caches() returns, agent = None
        a0 == IF refresh THEN NoAgent ELSE agent
        agent_type_changed ==
            current_agent_name # None /\ current_agent_name # name
        need_create == ~a0.live \/ agent_type_changed
        \* lines 2464-2482: save the outgoing agent's messages
        do_save == need_create /\ agent_type_changed /\ a0.live
        saved == trim_context_messages(a0.messages, NSwitch)
        store1 == IF do_save
                  THEN StorePut(agent_context_store, sid,
                                current_agent_name, saved)
                  ELSE agent_context_store
        \* lines 2499-2513: restore and create
        has == StoreHas(store1, sid, name)
        saved_messages == IF has THEN store1[sid][name] ELSE <<>>
        a1 == IF need_create
              THEN create_orchestrator(name, sid, has, saved_messages,
                                       createOk)
              ELSE a0
        \* agent.stream_async(...): the run appends to agent.messages
        a2 == IF a1.live
              THEN [a1 EXCEPT !.messages = @ \o FreshTurns(k)]
              ELSE a1
        store2 == IF a2.live /\ a2.seeded_from # <<>>
                  THEN StorePut(store1, a2.seeded_from[1],
                                a2.seeded_from[2], a2.messages)
                  ELSE store1
    IN
    /\ requests < MaxRequests
    /\ requests' = requests + 1
    /\ ~a1.live => k = 0
    /\ ~need_create => createOk
    /\ agent' = a2
    /\ current_agent_name' = IF need_create THEN name ELSE current_agent_name
    /\ agent_context_store' = store2
    /\ nextTurn' = nextTurn + k
    /\ turn_session' = turn_session \o [i \in 1..k |-> sid]
    /\ sessions_seen' = sessions_seen \cup {sid}
    /\ away' = [n \in Agents |->
                  IF agent_type_changed /\ agent.live
                       /\ n = current_agent_name
                  THEN [valid |-> TRUE, session |-> sid,
                        msgs |-> agent.messages]
                  ELSE IF need_create /\ a1.live /\ n = name THEN NoLeft
                  ELSE away[n]]
    /\ ctx_obs' = [op |-> "invoke", session |-> sid, agent_name |-> name,
                   refresh |-> refresh,
                   type_changed |-> agent_type_changed,
                   saved |-> do_save,
                   created |-> (need_create /\ a1.live),
                   seeded |-> IF need_create /\ a1.live
                              THEN a1.messages ELSE <<>>,
                   left |-> away[name],
                   appended |-> k]
    /\ UNCHANGED notCtxVars

\* agent_invocation with refresh_cache and no prompt (lines 2341-2361)
InvokeRefreshOnly(sid) ==
    /\ requests < MaxRequests
    /\ requests' = requests + 1
    /\ agent' = NoAgent
    /\ ctx_obs' = [op |-> "refresh_only", session |-> sid, agent_name |-> "-",
                   refresh |-> TRUE, type_changed |-> FALSE, saved |-> FALSE,
                   created |-> FALSE, seeded |-> <<>>, left |-> NoLeft,
                   appended |-> 0]
    /\ UNCHANGED <<current_agent_name, agent_context_store, nextTurn, away,
                   sessions_seen, turn_session>>
    /\ UNCHANGED notCtxVars

-----------------------------------------------------------------------------
(* handler.py: agent_invocation calls that overlap.  The coroutine runs     *)
(* without a suspension point from its first line through the switch        *)
(* handling up to agent.stream_async (line 2669) and is suspended while it  *)
(* iterates the stream (line 2675); the event loop runs other requests in   *)
(* between.  No lock guards agent, current_agent_name or                    *)
(* agent_context_store.                                                     *)

\* Requests suspended at the same time
MaxOverlap == 2
Slots == 1..MaxOverlap
\* The overlapping requests carry one session id
OverlapSession == "s1"

\* streams[i]: the request is suspended in its stream ("streaming") or not
\* running; the stream runs on the Agent object handler.agent named when the
\* request called agent.stream_async: that object is still handler.agent
\* (is_global) or has been replaced there and is obj
NoStream ==
    [state |-> "idle", name |-> "-", is_global |-> FALSE, obj |-> NoAgent]

\* agent_context_store[key] = <new list>: an Agent object whose messages
\* list was the list stored under key no longer shares it with the store
Unalias(o, key) ==
    IF o.seeded_from = key THEN [o EXCEPT !.seeded_from = <<>>] ELSE o

notCtxNorOverlap == <<cfgVars, key_under_test, memVars, vizVars,
                      written_over_neg, pending, kv_docs>>

\* agent_invocation of request slot i, lines 2300-2669, no refresh_cache in
\* the payload: the switch handling (save, restore, create) and the call of
\* agent.stream_async on handler.agent
InvokeBegin(i, sid, name, createOk) ==
    LET agent_type_changed ==
            current_agent_name # None /\ current_agent_name # name
        need_create == ~agent.live \/ agent_type_changed
        \* lines 2464-2482: save the outgoing agent's messages
        do_save == need_create /\ agent_type_changed /\ agent.live
        key == <<sid, current_agent_name>>
        saved == trim_context_messages(agent.messages, NSwitch)
        store1 == IF do_save
                  THEN StorePut(agent_context_store, sid,
                                current_agent_name, saved)
                  ELSE agent_context_store
        \* lines 2499-2513: restore and create
        has == StoreHas(store1, sid, name)
        saved_messages == IF has THEN store1[sid][name] ELSE <<>>
        a1 == IF need_create
              THEN create_orchestrator(name, sid, has, saved_messages,
                                       createOk)
              ELSE agent
        \* the object handler.agent named until line 2507
        old == IF do_save THEN Unalias(agent, key) ELSE agent
    IN
    /\ streams[i].state = "idle"
    /\ requests < MaxRequests
    /\ requests' = requests + 1
    /\ ~need_create => createOk
    /\ agent' = a1
    /\ current_agent_name' = IF need_create THEN name ELSE current_agent_name
    /\ agent_context_store' = store1
    /\ streams' = [j \in Slots |->
          IF j = i
          THEN IF a1.live
               THEN [state |-> "streaming", name |-> name,
                     is_global |-> TRUE, obj |-> NoAgent]
               ELSE NoStream
          ELSE IF streams[j].state = "streaming" /\ need_create
          THEN IF streams[j].is_global
               THEN [streams[j] EXCEPT !.is_global = FALSE, !.obj = old]
               ELSE IF do_save
               THEN [streams[j] EXCEPT !.obj = Unalias(@, key)]
               ELSE streams[j]
          ELSE streams[j]]
    /\ UNCHANGED <<nextTurn, ctx_obs, away, sessions_seen, last_run,
                   turn_session>>
    /\ UNCHANGED notCtxNorOverlap

\* The stream of request slot i runs to its end (lines 2675-2685): the run
\* appended k messages to the messages list of the Agent object it was
\* started on
StreamEnd(i, k) ==
    LET st == streams[i]
        o  == IF st.is_global THEN agent ELSE st.obj
        o2 == [o EXCEPT !.messages = @ \o FreshTurns(k)]
    IN
    /\ st.state = "streaming"
    /\ agent' = IF st.is_global THEN o2 ELSE agent
    /\ agent_context_store' =
          IF o2.seeded_from # <<>>
          THEN StorePut(agent_context_store, o2.seeded_from[1],
                        o2.seeded_from[2], o2.messages)
          ELSE agent_context_store
    /\ nextTurn' = nextTurn + k
    /\ turn_session' = turn_session \o [n \in 1..k |-> OverlapSession]
    /\ streams' = [streams EXCEPT ![i] = NoStream]
    /\ last_run' = IF k > 0
                   THEN [last_run EXCEPT ![st.name] = FreshTurns(k)]
                   ELSE last_run
    /\ UNCHANGED <<current_agent_name, ctx_obs, away, sessions_seen,
                   requests>>
    /\ UNCHANGED notCtxNorOverlap

-----------------------------------------------------------------------------
(* agentcore_memory_conversation_manager.py                                 *)

\* max_turns_to_retrieve (default of __init__)
max_turns_to_retrieve == 10
\* reduce_context without a fallback manager keeps the most recent 10
KeepRecent == 10
\* preserve_recent_messages of the SummarizingConversationManager fallback
preserve_recent_messages == 5
\* its summary_ratio = 0.3, as tenths
summary_ratio_tenths == 3
\* the summary message the fallback puts in place of the summarized ones
SummaryTurn == 0

\* turns the agent appends in a behaviour of SpecMem; add_turns calls in it
MaxMemTurns == 1
MaxAddTurns == 2

\* A message is a number; a stored turn holds one message.  EarlierTurns are
\* the turns an earlier process left in the session: one more than a
\* restore retrieves.
MemActor == "A"
EarlierTurns == [i \in 1..(max_turns_to_retrieve + 1) |-> i]
MemKeys == {MemActor} \X Sessions
NoSession == <<>>

\* Outcome of MemorySession.add_turns: stored, failed, or failed at the
\* client after the service had stored the event.
AddTurnsOutcomes == {"ok", "error", "timeout_after_write"}
\* Outcome of get_last_k_turns / create_memory_session
MemOutcomes == {"ok", "error"}

\* fallback_manager.restore_from_session(state) of the strands manager, given
\* a state that is not its own: it returns None or raises
FallbackRestoreOutcomes == {"none", "raises"}

LastK(seq, k) ==
    IF Len(seq) <= k THEN seq ELSE SubSeq(seq, Len(seq) - k + 1, Len(seq))

\* __init__ and _initialize_memory: the manager for (actor, session).
\* init = "skipped" (no SDK, empty or default memory_id, or the
\* MemorySessionManager constructor raised), "no_session"
\* (create_memory_session raised) or "ok".
NewManager(actor, session, init, fallback) ==
    [actor_id |-> actor, session_id |-> session,
     session_manager |-> init # "skipped",
     memory_available |-> init = "ok",
     memory_session |-> IF init = "ok" THEN <<actor, session>> ELSE NoSession,
     fallback_manager |-> fallback,
     last_persisted_index |-> -1,
     persisted_message_count |-> 0,
     removed_message_count |-> 0,
     stage |-> "created"]

\* Variant of restore_from_session that leaves the cursor where it was.
RestoreKeepsIndex(m, stored, o) ==
    IF ~m.memory_available \/ o = "error" \/ LastK(stored, max_turns_to_retrieve) = <<>>
    THEN [mgr |-> m, returned |-> <<>>, io |-> m.memory_available]
    ELSE [mgr |-> m, returned |-> LastK(stored, max_turns_to_retrieve),
          io |-> TRUE]

\* restore_from_session({}): stored = the turns the bound session holds.
restore_from_session(m, stored, o) ==
    IF ~m.memory_available
    THEN [mgr |-> m, returned |-> <<>>, io |-> FALSE]
    ELSE IF o = "error"
    THEN [mgr |-> m, returned |-> <<>>, io |-> TRUE]
    ELSE LET msgs == LastK(stored, max_turns_to_retrieve) IN
         IF msgs = <<>>
         THEN [mgr |-> m, returned |-> <<>>, io |-> TRUE]
         ELSE [mgr |-> [m EXCEPT !.persisted_message_count = Len(msgs),
                                 !.last_persisted_index = Len(msgs) - 1],
               returned |-> msgs, io |-> TRUE]

\* Variant of apply_management that never advances the cursor.
ApplyKeepsIndex(m, msgs, o) ==
    LET start == m.last_persisted_index + 1
        new == IF start < Len(msgs)
               THEN SubSeq(msgs, start + 1, Len(msgs)) ELSE <<>>
    IN IF ~m.memory_available \/ new = <<>>
       THEN [mgr |-> m, calls |-> 0, handed |-> <<>>, stored |-> FALSE]
       ELSE [mgr |-> m, calls |-> 1, handed |-> new,
             stored |-> o \in {"ok", "timeout_after_write"}]

\* Variant of apply_management that sets the cursor from the number of
\* new messages instead of the length of the list.
ApplyIndexFromNew(m, msgs, o) ==
    LET start == m.last_persisted_index + 1
        new == IF start < Len(msgs)
               THEN SubSeq(msgs, start + 1, Len(msgs)) ELSE <<>>
    IN IF ~m.memory_available \/ new = <<>>
       THEN [mgr |-> m, calls |-> 0, handed |-> <<>>, stored |-> FALSE]
       ELSE [mgr |-> IF o = "ok"
                     THEN [m EXCEPT !.last_persisted_index = Len(new) - 1,
                                    !.persisted_message_count = Len(new)]
                     ELSE m,
             calls |-> 1, handed |-> new,
             stored |-> o \in {"ok", "timeout_after_write"}]

\* Variant of apply_management that advances the cursor whatever add_turns
\* did.
ApplyAdvancesOnFailure(m, msgs, o) ==
    LET start == m.last_persisted_index + 1
        new == IF start < Len(msgs)
               THEN SubSeq(msgs, start + 1, Len(msgs)) ELSE <<>>
    IN IF ~m.memory_available \/ new = <<>>
       THEN [mgr |-> m, calls |-> 0, handed |-> <<>>, stored |-> FALSE]
       ELSE [mgr |-> [m EXCEPT !.last_persisted_index = Len(msgs) - 1,
                               !.persisted_message_count = Len(msgs)],
             calls |-> 1, handed |-> new,
             stored |-> o \in {"ok", "timeout_after_write"}]

\* apply_management(agent): msgs = agent.messages, o = outcome of add_turns.
\* calls = add_turns calls made, handed = the messages given to it,
\* stored = the service stored them.
apply_management(m, msgs, o) ==
    IF ~m.memory_available
    THEN [mgr |-> m, calls |-> 0, handed |-> <<>>, stored |-> FALSE]
    ELSE
    LET new_messages_start == m.last_persisted_index + 1
        new_messages == IF new_messages_start < Len(msgs)
                        THEN SubSeq(msgs, new_messages_start + 1, Len(msgs))
                        ELSE <<>>
    IN IF new_messages = <<>>
       THEN [mgr |-> m, calls |-> 0, handed |-> <<>>, stored |-> FALSE]
       ELSE [mgr |-> IF o = "ok"
                     THEN [m EXCEPT !.last_persisted_index = Len(msgs) - 1,
                                    !.persisted_message_count = Len(msgs)]
                     ELSE m,
             calls |-> 1, handed |-> new_messages,
             stored |-> o \in {"ok", "timeout_after_write"}]

\* Messages the fallback summarizes of n:
\* min(max(1, int(n * summary_ratio)), n - preserve_recent_messages)
SummarizeCount(n) ==
    LET byRatio == IF (n * summary_ratio_tenths) \div 10 < 1 THEN 1
                   ELSE (n * summary_ratio_tenths) \div 10
        room == n - preserve_recent_messages
    IN IF byRatio < room THEN byRatio ELSE room

\* Variant of reduce_context that leaves the cursor where it was.
ReduceKeepsIndex(m, msgs, fallbackOk) ==
    IF m.fallback_manager
    THEN IF ~fallbackOk \/ SummarizeCount(Len(msgs)) < 1
         THEN [mgr |-> m, msgs |-> msgs, raised |-> TRUE]
         ELSE [mgr |-> m,
               msgs |-> <<SummaryTurn>> \o
                     SubSeq(msgs, SummarizeCount(Len(msgs)) + 1, Len(msgs)),
               raised |-> FALSE]
    ELSE IF Len(msgs) > KeepRecent
    THEN [mgr |-> [m EXCEPT
                     !.removed_message_count = @ + (Len(msgs) - KeepRecent)],
          msgs |-> LastK(msgs, KeepRecent), raised |-> FALSE]
    ELSE [mgr |-> m, msgs |-> msgs, raised |-> FALSE]

\* reduce_context(agent, e).  With a fallback manager the reduction is the
\* fallback's: it raises (nothing to summarize, or the summary call failed:
\* nothing changes and the exception propagates) or replaces the oldest
\* SummarizeCount messages by one summary message; then the index is set to
\* the end of the list.  Without one, a list longer than 10 is cut to its
\* last 10.
reduce_context(m, msgs, fallbackOk) ==
    IF m.fallback_manager
    THEN IF ~fallbackOk \/ SummarizeCount(Len(msgs)) < 1
         THEN [mgr |-> m, msgs |-> msgs, raised |-> TRUE]
         ELSE LET reduced == <<SummaryTurn>> \o
                     SubSeq(msgs, SummarizeCount(Len(msgs)) + 1, Len(msgs))
              IN [mgr |-> [m EXCEPT
                             !.last_persisted_index = Len(reduced) - 1,
                             !.persisted_message_count = Len(reduced)],
                  msgs |-> reduced, raised |-> FALSE]
    ELSE IF Len(msgs) > KeepRecent
    THEN LET kept == LastK(msgs, KeepRecent) IN
         [mgr |-> [m EXCEPT
                     !.removed_message_count = @ + (Len(msgs) - KeepRecent),
                     !.last_persisted_index = Len(kept) - 1,
                     !.persisted_message_count = Len(kept)],
          msgs |-> kept, raised |-> FALSE]
    ELSE [mgr |-> m, msgs |-> msgs, raised |-> FALSE]

\* update_session_info(actor_id, session_id); o = outcome of
\* create_memory_session
update_session_info(m, actor, session, o) ==
    IF actor # m.actor_id \/ session # m.session_id
    THEN [m EXCEPT !.actor_id = actor, !.session_id = session,
                   !.memory_session =
                       IF m.session_manager /\ o = "ok"
                       THEN <<actor, session>> ELSE @]
    ELSE m

\* ---- SpecMem: one manager and the agent it serves ----

\* after = how the call before this one ended when it was apply_management
\* ("ok": add_turns not needed or answered, "failed"), else "-";
\* handed = the messages this call gave to add_turns; pending_failed = the
\* messages the latest apply_management gave to an add_turns that raised,
\* when only appends to agent.messages happened since; len_before = the
\* length of agent.messages at the call; reduced_to = the length the latest
\* reduce_context that shortened the list left it with (-1: none so far)
MobsOf(name) ==
    [op |-> name,
     after |-> IF mobs.op = "apply_management"
               THEN (IF mobs.outcome \in {"ok", "-"} THEN "ok" ELSE "failed")
               ELSE "-",
     outcome |-> "-", index_before |-> mgr.last_persisted_index,
     calls |-> 0, returned |-> <<>>, raised |-> FALSE,
     handed |-> <<>>,
     len_before |-> Len(messages),
     reduced_to |-> mobs.reduced_to,
     pending_failed |->
         IF mobs.op = "apply_management"
         THEN (IF mobs.outcome \in {"error", "timeout_after_write"}
               THEN mobs.handed ELSE <<>>)
         ELSE IF mobs.op = "append" THEN mobs.pending_failed
         ELSE <<>>]

memFrame == <<cfgVars, key_under_test, agent, current_agent_name,
              agent_context_store, ctx_obs, away, sessions_seen, requests,
              turn_session,
              vizVars, written_over_neg, pending, kv_docs, overlapVars>>

\* create_orchestrator, no saved_messages (lines 2233-2244): the new manager
\* restores, and the Agent starts with what it returned
Restore ==
    /\ mgr.stage = "created"
    /\ \E o \in MemOutcomes, fb \in FallbackRestoreOutcomes :
         LET stored == IF mgr.memory_session = NoSession THEN <<>>
                       ELSE durable[mgr.memory_session]
             r == restore_from_session(mgr, stored, o)
             \* lines 177-181 and 215-219: the fallback's restore is called
             delegated == mgr.fallback_manager /\ (~r.io \/ o = "error")
         IN /\ (~r.io => o = "ok")
            /\ (~delegated => fb = "none")
            /\ mgr' = [r.mgr EXCEPT !.stage = "running"]
            /\ messages' = r.returned
            /\ restored' = {r.returned[i] : i \in 1..Len(r.returned)}
            /\ mobs' = [MobsOf("restore_from_session") EXCEPT
                          !.outcome = IF r.io THEN o ELSE "-",
                          !.returned = r.returned,
                          !.raised = (fb = "raises")]
    /\ UNCHANGED <<durable, pushed, nextTurn, add_turns_calls>>
    /\ UNCHANGED memFrame

\* create_orchestrator with saved_messages (lines 2230-2232): no restore, the
\* Agent starts with the saved messages
StartSeeded(saved_messages) ==
    /\ mgr.stage = "created"
    /\ mgr' = [mgr EXCEPT !.stage = "running"]
    /\ messages' = saved_messages
    /\ mobs' = MobsOf("seeded")
    /\ UNCHANGED <<durable, pushed, restored, nextTurn, add_turns_calls>>
    /\ UNCHANGED memFrame

\* The agent run appends k messages to agent.messages
AgentAppends(k) ==
    /\ mgr.stage = "running"
    /\ nextTurn + k - 1 <= Len(EarlierTurns) + MaxMemTurns
    /\ messages' = messages \o FreshTurns(k)
    /\ nextTurn' = nextTurn + k
    /\ mobs' = MobsOf("append")
    /\ UNCHANGED <<mgr, durable, pushed, restored, add_turns_calls>>
    /\ UNCHANGED memFrame

\* The event loop calls conversation_manager.apply_management(agent)
ApplyManagement ==
    /\ mgr.stage = "running"
    /\ \E o \in AddTurnsOutcomes :
         LET r == apply_management(mgr, messages, o) IN
         /\ (r.calls = 0 => o = "ok")
         /\ r.calls > 0 => add_turns_calls < MaxAddTurns
         /\ add_turns_calls' = add_turns_calls + r.calls
         /\ mgr' = r.mgr
         /\ durable' = IF r.stored
                       THEN [durable EXCEPT ![mgr.memory_session] =
                                              @ \o r.handed]
                       ELSE durable
         /\ pushed' = pushed \cup {r.handed[i] : i \in 1..Len(r.handed)}
         /\ mobs' = [MobsOf("apply_management") EXCEPT
                       !.outcome = IF r.calls > 0 THEN o ELSE "-",
                       !.calls = r.calls,
                       !.handed = r.handed]
    /\ UNCHANGED <<messages, restored, nextTurn>>
    /\ UNCHANGED memFrame

\* The event loop calls conversation_manager.reduce_context(agent, e)
ReduceContext ==
    /\ mgr.stage = "running"
    /\ \E fallbackOk \in BOOLEAN :
         LET r == reduce_context(mgr, messages, fallbackOk) IN
         /\ (~mgr.fallback_manager => fallbackOk)
         /\ mgr' = r.mgr
         /\ messages' = r.msgs
         /\ mobs' = [MobsOf("reduce_context") EXCEPT
                       !.raised = r.raised,
                       !.reduced_to = IF Len(r.msgs) < Len(messages)
                                      THEN Len(r.msgs) ELSE @]
    /\ UNCHANGED <<durable, pushed, restored, nextTurn, add_turns_calls>>
    /\ UNCHANGED memFrame

\* agent_invocation reuses the agent (lines 2541-2546)
UpdateSessionInfo(actor, session) ==
    /\ mgr.stage = "running"
    /\ \E o \in MemOutcomes :
         LET changes == actor # mgr.actor_id \/ session # mgr.session_id IN
         /\ (~(changes /\ mgr.session_manager) => o = "ok")
         /\ mgr' = update_session_info(mgr, actor, session, o)
         /\ mobs' = [MobsOf("update_session_info") EXCEPT
                       !.outcome = IF changes /\ mgr.session_manager
                                   THEN o ELSE "-"]
    /\ UNCHANGED <<messages, durable, pushed, restored, nextTurn, add_turns_calls>>
    /\ UNCHANGED memFrame

-----------------------------------------------------------------------------
(* Initial states and specifications                                        *)

\* Caches and refresh state of a freshly imported handler module
InitCaches ==
    /\ ddb_config_cache = EmptyDdbCache
    /\ cache_initialized = FALSE
    /\ instructions_cache = [a \in Agents |-> Absent]
    /\ config_cache = CfgAbsent
    /\ GLOBAL_CONFIG = EmptyDict
    /\ initialization_complete = FALSE
    /\ rpc = "idle"
    /\ rnames = <<>>
    /\ stats = NoStats
    /\ obs = ObsOf("init")

\* The accessors treat every key on its own: no statement of
\* load_instructions_for_agent (placeholder-free texts) reads another
\* agent's entries or the global configuration, and none of load_configs
\* reads an instruction entry.  A behaviour of SpecCfg therefore works on one
\* key, chosen initially: the instructions of UnderTest or the global
\* configuration.
CacheKeys == {"instruction", "global_config"} \cup DocKinds
GlobalItems == {CfgNoItem, CfgMalformed, EmptyDict, Cfg(TRUE, Agents)}

InitCfgVars ==
    /\ kv = [a \in Agents |-> NoItem]
    /\ kvGlobal = CfgNoItem
    /\ s3 \in {f \in [Agents -> {NoItem, S3Text}] :
                 \A a \in Agents \ {UnderTest} : f[a] = NoItem}
    /\ fs \in {f \in [Agents -> {NoItem, FsText}] :
                 \A a \in Agents \ {UnderTest} : f[a] = NoItem}
    /\ InitCaches

\* refresh_all_caches starts from any content of the stores
InitRefreshVars ==
    /\ kv \in [Agents -> {NoItem, "v1"}]
    /\ kvGlobal \in {CfgNoItem, CfgMalformed} \cup Configs
    /\ s3 \in [Agents -> {NoItem, S3Text}]
    /\ fs \in [Agents -> {NoItem, FsText}]
    /\ InitCaches

InitCtxVars ==
    /\ agent = NoAgent
    /\ current_agent_name = None
    /\ agent_context_store = [s \in {} |-> <<>>]
    /\ nextTurn = 1
    /\ ctx_obs = [op |-> "init", session |-> "-", agent_name |-> "-",
                  refresh |-> FALSE, type_changed |-> FALSE, saved |-> FALSE,
                  created |-> FALSE, seeded |-> <<>>, left |-> NoLeft,
                  appended |-> 0]
    /\ away = [n \in Agents |-> NoLeft]
    /\ sessions_seen = {}
    /\ requests = 0
    /\ turn_session = <<>>

NoMobs ==
    [op |-> "init", after |-> "-", outcome |-> "-", index_before |-> -1,
     calls |-> 0, returned |-> <<>>, raised |-> FALSE, handed |-> <<>>,
     len_before |-> 0, reduced_to |-> -1, pending_failed |-> <<>>]

\* No visualization map stored or cached; no write over a negative entry
\* yet; no get under way
NoHistory == [instruction |-> "no", viz_map |-> "no"]

InitVizVars ==
    /\ visualization_map_cache = [a \in Agents |-> Absent]
    /\ viz_s3 = [a \in Agents |-> NoItem]
    /\ viz_fs = [a \in Agents |-> NoItem]
    /\ written_over_neg = NoHistory
    /\ pending = NoPending
    /\ kv_docs = [k \in DocKinds |-> [a \in Agents |-> NoItem]]
    /\ streams = [i \in Slots |-> NoStream]
    /\ last_run = [a \in Agents |-> <<>>]

InitMemVars ==
    /\ mgr = NewManager(MemActor, "s1", "skipped", FALSE)
    /\ messages = <<>>
    /\ durable = [key \in MemKeys |-> <<>>]
    /\ pushed = {}
    /\ restored = {}
    /\ add_turns_calls = 0
    /\ mobs = NoMobs

InitCfg ==
    /\ InitCfgVars
    /\ key_under_test \in CacheKeys
    /\ key_under_test # "instruction" =>
          s3[UnderTest] = NoItem /\ fs[UnderTest] = NoItem
    /\ InitCtxVars /\ InitMemVars /\ InitVizVars

InitRefresh ==
    /\ InitRefreshVars
    /\ key_under_test = "all"
    /\ InitCtxVars /\ InitMemVars /\ InitVizVars

NextCfg ==
    \/ /\ key_under_test = "instruction"
       /\ \E uc \in BOOLEAN : LoadInstructions(UnderTest, uc)
    \/ /\ key_under_test = "instruction"
       /\ ClearInstructionsCache(UnderTest)
    \/ /\ key_under_test = "instruction"
       /\ DdbClearCacheKey(UnderTest)
    \/ /\ key_under_test = "instruction"
       /\ \E c \in KvContents : PutAgentInstructions(UnderTest, c)
    \/ /\ key_under_test = "global_config"
       /\ \E uc \in BOOLEAN : LoadConfigs(uc)
    \/ /\ key_under_test = "global_config"
       /\ GetAgentConfig
    \/ /\ key_under_test = "global_config"
       /\ \E item \in GlobalItems : PutGlobalConfig(item)
    \/ /\ key_under_test \in DocKinds
       /\ \E uc \in BOOLEAN : LoadDoc(key_under_test, UnderTest, uc)
    \/ /\ key_under_test \in DocKinds
       /\ \E item \in Docs \cup {DocMalformed} :
             PutDoc(key_under_test, UnderTest, item)

SpecCfg == InitCfg /\ [][NextCfg]_vars

\* One refresh_all_caches call after another, each run to its return
NextRefresh ==
    \/ RefreshClear
    \/ RefreshGlobal
    \/ RefreshInstructions
    \/ RefreshPreloadBegin
    \/ RefreshPreloadLoad
    \/ RefreshFinish

SpecRefresh == InitRefresh /\ [][NextRefresh]_vars

\* Writes to the stores, refresh_all_caches calls run to their return, and
\* Relaxed gets between them, all in one handler process. A behaviour follows
\* one key: the instructions or the visualization map of agent UnderTest, or
\* the global configuration.
ReloadKeys == {"instruction", "viz_map", "global_config"}

InitReload ==
    /\ kv \in {k \in [Agents -> {NoItem, "v1"}] :
                 \A a \in Agents \ {UnderTest} : k[a] = NoItem}
    /\ kvGlobal \in {CfgNoItem, Cfg(TRUE, {}), Cfg(TRUE, {UnderTest})}
    /\ s3 \in {o \in [Agents -> {NoItem, S3Text}] :
                 \A a \in Agents \ {UnderTest} : o[a] = NoItem}
    /\ fs = [a \in Agents |-> NoItem]
    /\ InitCaches
    /\ key_under_test \in ReloadKeys
    /\ InitCtxVars /\ InitMemVars /\ InitVizVars

NextReload ==
    \/ RefreshClear
    \/ RefreshGlobal
    \/ RefreshInstructions
    \/ RefreshPreloadBegin
    \/ RefreshPreloadLoad
    \/ RefreshFinish
    \/ /\ rpc = "idle" /\ key_under_test = "instruction"
       /\ LoadInstructions(UnderTest, TRUE)
    \/ /\ rpc = "idle" /\ key_under_test = "instruction"
       /\ \E c \in KvContents : PutAgentInstructions(UnderTest, c)
    \/ /\ rpc = "idle" /\ key_under_test = "viz_map"
       /\ LoadAgentVisualizationMap(UnderTest, TRUE)
    \/ /\ rpc = "idle" /\ key_under_test = "viz_map"
       /\ \E m \in VizMaps : WriteVisualizationMap(UnderTest, m)
    \/ /\ rpc = "idle" /\ key_under_test = "global_config"
       /\ GetAgentConfig

SpecReload == InitReload /\ [][NextReload]_vars

\* One tool thread making Relaxed gets of the instructions of UnderTest while
\* the event loop runs refresh_all_caches calls; the store is written between
\* refreshes
InitRace ==
    /\ kv \in {k \in [Agents -> {NoItem, "v1"}] :
                 \A a \in Agents \ {UnderTest} : k[a] = NoItem}
    /\ kvGlobal \in {Cfg(TRUE, {}), Cfg(TRUE, {UnderTest})}
    /\ s3 = [a \in Agents |-> NoItem]
    /\ fs = [a \in Agents |-> NoItem]
    /\ InitCaches
    /\ key_under_test = "instruction"
    /\ InitCtxVars /\ InitMemVars /\ InitVizVars

NextRace ==
    \/ RefreshClear
    \/ RefreshGlobal
    \/ RefreshInstructions
    \/ RefreshPreloadBegin
    \/ RefreshPreloadLoad
    \/ RefreshFinish
    \/ RelaxedGetBegin(UnderTest)
    \/ RelaxedGetEnd(UnderTest)
    \/ /\ rpc = "idle"
       /\ \E c \in KvContents : PutAgentInstructions(UnderTest, c)

SpecRace == InitRace /\ [][NextRace]_vars

\* Requests to one handler process; the stores hold nothing
InitCtx ==
    /\ kv = [a \in Agents |-> NoItem]
    /\ kvGlobal = CfgNoItem
    /\ s3 = [a \in Agents |-> NoItem]
    /\ fs = [a \in Agents |-> NoItem]
    /\ InitCaches
    /\ key_under_test = "none"
    /\ InitCtxVars /\ InitMemVars /\ InitVizVars

NextCtx ==
    \/ \E sid \in Sessions, name \in Agents, refresh \in BOOLEAN,
          createOk \in BOOLEAN, k \in AppendCounts :
          Invoke(sid, name, refresh, createOk, k)
    \/ \E sid \in Sessions : InvokeRefreshOnly(sid)

SpecCtx == InitCtx /\ [][NextCtx]_vars

\* Requests of one session to one handler process that overlap: a request
\* is suspended in its stream while others run their switch handling
InitOverlap == InitCtx

NextOverlap ==
    \/ \E i \in Slots, name \in Agents, createOk \in BOOLEAN :
          InvokeBegin(i, OverlapSession, name, createOk)
    \/ \E i \in Slots, k \in AppendCounts : StreamEnd(i, k)

SpecOverlap == InitOverlap /\ [][NextOverlap]_vars

\* A manager as create_orchestrator makes it for actor "A" in session "s1";
\* the session holds nothing or the turns of an earlier process (one more
\* than a restore retrieves).

InitMem ==
    /\ kv = [a \in Agents |-> NoItem]
    /\ kvGlobal = CfgNoItem
    /\ s3 = [a \in Agents |-> NoItem]
    /\ fs = [a \in Agents |-> NoItem]
    /\ InitCaches
    /\ key_under_test = "none"
    /\ agent = NoAgent
    /\ current_agent_name = None
    /\ agent_context_store = [s \in {} |-> <<>>]
    /\ nextTurn = Len(EarlierTurns) + 1
    /\ ctx_obs = [op |-> "init", session |-> "-", agent_name |-> "-",
                  refresh |-> FALSE, type_changed |-> FALSE, saved |-> FALSE,
                  created |-> FALSE, seeded |-> <<>>, left |-> NoLeft,
                  appended |-> 0]
    /\ away = [n \in Agents |-> NoLeft]
    /\ sessions_seen = {}
    /\ requests = 0
    /\ turn_session = <<>>
    /\ \E init \in {"skipped", "no_session", "ok"}, fallback \in BOOLEAN :
          mgr = NewManager(MemActor, "s1", init, fallback)
    /\ messages = <<>>
    /\ \E h \in {<<>>, EarlierTurns} :
          durable = [key \in MemKeys |->
                       IF key = <<MemActor, "s1">> THEN h ELSE <<>>]
    /\ pushed = {}
    /\ restored = {}
    /\ add_turns_calls = 0
    /\ mobs = NoMobs
    /\ InitVizVars

NextMem ==
    \/ Restore
    \/ StartSeeded(trim_context_messages(EarlierTurns, NSwitch))
    \/ \E k \in 1..MaxMemTurns : AgentAppends(k)
    \/ ApplyManagement
    \/ ReduceContext
    \/ \E session \in Sessions : UpdateSessionInfo(MemActor, session)

SpecMem == InitMem /\ [][NextMem]_vars

-----------------------------------------------------------------------------
(* Properties of the typed accessors (SpecCfg)                              *)

\* obs describes the last call; the stores and caches are as it left them.
StrictInstructionRead ==
    obs.op = "load_instructions_for_agent" /\ ~obs.use_cache
RelaxedInstructionRead ==
    obs.op = "load_instructions_for_agent" /\ obs.use_cache
StrictConfigRead == obs.op = "load_configs" /\ ~obs.use_cache

\* A value was written for the key and is what the KV store holds
InstructionWritten(a) == kv[a] \in KvContents
ConfigWritten == kvGlobal \in Configs

C2_StrictGetRefreshes ==
    /\ (RelaxedInstructionRead /\ obs.preH) =>
          (obs.io = NoIo /\ obs.val = instructions_cache[obs.agent])
    /\ (StrictInstructionRead /\ obs.stale /\ InstructionWritten(obs.agent)) =>
          /\ ~obs.raised /\ obs.val = Strip(kv[obs.agent])
          /\ instructions_cache[obs.agent] = Strip(kv[obs.agent])
          /\ ddb_config_cache.instruction[obs.agent] = kv[obs.agent]

\* C2 amended: a Relaxed get that finds the key in the handler cache returns
\* the cached text with no store call; one that misses the handler cache and
\* finds a non-empty loader-cache entry returns that entry (stripped) with no
\* store call; a Strict get whose GetItem is answered with non-empty content
\* v2 returns v2 and leaves v2 in both caches.
C2_StrictGetRefreshesWhenAnswered ==
    /\ (RelaxedInstructionRead /\ obs.preH) =>
          (obs.io = NoIo /\ obs.val = instructions_cache[obs.agent])
    /\ (RelaxedInstructionRead /\ ~obs.preH /\ obs.pre = "pos") =>
          /\ obs.io = NoIo
          /\ obs.val = Strip(ddb_config_cache.instruction[obs.agent])
          /\ instructions_cache[obs.agent] = obs.val
    /\ (StrictInstructionRead /\ obs.ko = "ok"
          /\ InstructionWritten(obs.agent) /\ kv[obs.agent] # "") =>
          /\ ~obs.raised /\ obs.val = Strip(kv[obs.agent])
          /\ instructions_cache[obs.agent] = Strip(kv[obs.agent])
          /\ ddb_config_cache.instruction[obs.agent] = kv[obs.agent]

\* C2 witness: v1 was cached in both tiers, the store holds v2, and the
\* Strict get just returned v2 and refreshed both caches.
C2_Witness ==
    /\ StrictInstructionRead /\ obs.ko = "ok" /\ obs.stale
    /\ obs.preH /\ obs.pre = "pos"
    /\ kv[obs.agent] = " v2 " /\ obs.val = "v2"
    /\ instructions_cache[obs.agent] = "v2"
    /\ ddb_config_cache.instruction[obs.agent] = " v2 "

\* C3 as stated: once a Relaxed get of a key absent from the KV store, S3
\* and the filesystem has recorded a negative entry, a later Relaxed get of
\* the key does no backing-store I/O.
C3_NegativeEntryStopsIo ==
    (RelaxedInstructionRead /\ obs.pre = "neg"
       /\ kv[obs.agent] = NoItem /\ s3[obs.agent] = NoItem
       /\ fs[obs.agent] = NoItem) =>
       obs.io = NoIo

\* The last call was a load_instructions_for_agent that the handler cache
\* did not answer and that returned
ResolvedThroughChain ==
    /\ obs.op = "load_instructions_for_agent"
    /\ obs.tier # "handler_cache" /\ ~obs.raised

\* What the tiers gave that call: the DynamoDB loader a non-empty text (from
\* an answered GetItem, or from its cache on a Relaxed call), the object
\* store a text from an answered get_object
KvYields ==
    IF obs.io.kv = 1
    THEN obs.ko = "ok" /\ kv[obs.agent] \notin {NoItem, ""}
    ELSE obs.pre = "pos"
S3Yields == obs.s3o = "ok" /\ s3[obs.agent] # NoItem
FoundText == obs.val \notin CouldntLoadTexts

\* The first tier in the order DynamoDB, S3, filesystem that yields a
\* non-empty text answers, and the tiers after it are not queried
FirstNonEmptyTierWins ==
    LET a == obs.agent IN
    /\ obs.tier \in {"kv", "s3", "fs"}
    /\ KvYields <=> obs.tier = "kv"
    /\ (~KvYields /\ S3Yields) <=> obs.tier = "s3"
    /\ obs.tier = "kv" =>
          /\ obs.io.s3 = 0 /\ obs.io.fs = 0
          /\ obs.val = Strip(ddb_config_cache.instruction[a])
          /\ obs.io.kv = 1 => ddb_config_cache.instruction[a] = kv[a]
    /\ obs.tier = "s3" =>
          /\ obs.io.s3 = 1 /\ obs.io.fs = 0
          /\ obs.val = Strip(s3[a])
    /\ obs.tier = "fs" =>
          /\ obs.io.s3 = 1 /\ obs.io.fs = 1
          /\ FoundText => obs.val = Strip(fs[a])

StrictTypedRead ==
    /\ obs.op \in {"load_instructions_for_agent", "load_configs"} \cup DocKinds
    /\ ~obs.use_cache

\* C17 as stated: a Strict read through any typed accessor (instructions,
\* global configuration, agent card, visualization map, visualization
\* template) is not answered from a cache and makes its GetItem with
\* ConsistentRead = true.
C17_StrictReadIsConsistent ==
    StrictTypedRead => (obs.io.kv = 1 /\ obs.consistent)

\* The last call read the KV store and the read failed with an I/O error
\* (ClientError, or a timeout) instead of being answered
FailedInstructionRead ==
    obs.op = "load_instructions_for_agent" /\ obs.io.kv = 1
       /\ obs.ko \in {"client_error", "timeout"}
FailedConfigRead ==
    obs.op \in {"load_configs", "get_agent_config"} /\ obs.io.kv = 1
       /\ obs.ko \in {"client_error", "timeout"}

\* C16 as stated: a KV-store read that fails with an I/O error leaves no
\* negative entry for the key in the loader cache unless one was there
\* before; in particular a positive entry is still there after it.
C16_FailedReadWritesNoNegativeEntry ==
    /\ FailedInstructionRead =>
          (ddb_config_cache.instruction[obs.agent] = None => obs.pre = "neg")
    /\ FailedConfigRead =>
          (ddb_config_cache.global_config = CfgNone => obs.pre = "neg")

\* The last call was the first Relaxed load_instructions_for_agent(a) after
\* clear_instructions_cache(a)
RelaxedLoadAfterClear ==
    /\ obs.op = "load_instructions_for_agent" /\ obs.use_cache
    /\ obs.after_clear = obs.agent

\* C28 as stated: after clear_instructions_cache(agent) the next Relaxed
\* load_instructions_for_agent(agent) reads the backing store again and,
\* the store answering with a text, returns that text: never a value that a
\* cache tier held before the invalidation.
C28_ClearForcesReread ==
    RelaxedLoadAfterClear =>
       /\ obs.io.kv = 1
       /\ (obs.ko \in {"ok", "-"} /\ kv[obs.agent] \notin {NoItem, ""}) =>
             obs.val = Strip(kv[obs.agent])

-----------------------------------------------------------------------------
(* Properties of refresh_all_caches (SpecRefresh)                           *)

\* refresh_all_caches has returned its report
RefreshReturned == stats.phase = "returned"

\* C9 as stated: when the reload of an agent's instructions failed in step 4
\* (ClientError or timeout of its GetItem), the returned report lists the
\* agent in errors, the agents whose read was answered are reloaded, and
\* success is true.
C9_FailedReloadIsReported ==
    (RefreshReturned /\ ~stats.fatal) =>
       /\ stats.failed \subseteq stats.errors
       /\ \A a \in stats.answered :
            (kv[a] # NoItem /\ kv[a] # "") =>
               instructions_cache[a] = Strip(kv[a])
       /\ stats.success

\* C10: a refresh whose step 3 read a global configuration with zero agents
\* returns success = True with instructions_from_ddb, total_instructions and
\* instructions_from_fallback all 0; and no refresh, whatever the outcomes of
\* its store calls, raises to its caller.
C10_EmptyConfigRefreshSucceeds ==
    /\ (RefreshReturned /\ stats.global_config = 1
          /\ stats.agent_configs_found = 0) =>
          /\ stats.success /\ ~stats.fatal
          /\ stats.instructions_from_ddb = 0
          /\ stats.total_instructions = 0
          /\ stats.instructions_from_fallback = 0
    /\ ~stats.raised_to_caller
    /\ (RefreshReturned /\ ~stats.success) => stats.fatal

\* C10 witness: a refresh returned for a stored configuration with zero
\* agents while the instructions library holds files.
C10_Witness ==
    /\ RefreshReturned /\ stats.success
    /\ kvGlobal = Cfg(TRUE, {}) /\ stats.agent_configs_found = 0
    /\ stats.got_global
    /\ fs["A"] # NoItem /\ s3["C"] # NoItem

\* The handler-side and loader-side caches hold no entry
HandlerCachesEmpty ==
    /\ config_cache = CfgAbsent
    /\ instructions_cache = [a \in Agents |-> Absent]
    /\ ddb_config_cache = EmptyDdbCache

\* C12 as stated: immediately after the clear step of refresh_all_caches
\* (steps 1 and 2 done, the step-3 reload not yet made) no in-process cache
\* holds an entry: neither the handler config cache, the handler instructions
\* cache, the DynamoDB-loader cache, nor the visualization map cache.
C12_ClearEmptiesEveryTier ==
    (rpc = "global") =>
        /\ HandlerCachesEmpty
        /\ visualization_map_cache = [a \in Agents |-> Absent]

\* A Relaxed get of the key under test has just returned, none of its own
\* store calls having failed, and before it a value was written to the store
\* while a cache held a negative entry for the key and a refresh_all_caches
\* call then completed
RelaxedGetAfterWriteAndRefresh(op, kind) ==
    /\ obs.op = op /\ obs.use_cache /\ obs.agent = UnderTest
    /\ obs.ko \in {"ok", "-"}
    /\ written_over_neg[kind] = "refreshed"

\* C13 as stated: once a value was written to the store for a key that had
\* a negative cache entry and a refresh_all_caches call completed after the
\* write, a Relaxed get of the key returns the stored value (instruction
\* text, or visualization map), never a not-found answer.
C13_WriteThenRefreshSupersedes ==
    /\ RelaxedGetAfterWriteAndRefresh("load_instructions_for_agent",
                                      "instruction")
          => obs.val = Strip(kv[UnderTest])
    /\ RelaxedGetAfterWriteAndRefresh("load_agent_visualization_map",
                                      "viz_map")
          => obs.val = viz_s3[UnderTest]

\* C14 as stated (its last clause): once refresh_all_caches has completed,
\* the loader cache does not hold, for the key of a concurrent Relaxed get,
\* an entry (value or negative entry) whose store read was made before the
\* refresh began, that is before its clear step.
C14_NoPreClearEntryAfterRefresh ==
    ~(/\ pending.state = "written"
      /\ pending.read_phase = "none"
      /\ RefreshReturned /\ stats.success /\ rpc = "idle"
      /\ ddb_config_cache.instruction[UnderTest] = pending.centry)

\* refresh_all_caches was interrupted after its clear step: an exception of
\* the step-3 reload of the global configuration or of the step-5 preload
\* reached its outer except clause, and the call returned
RefreshInterrupted == RefreshReturned /\ stats.fatal
\* ... by the step-3 reload, before anything was reloaded
InterruptedBeforeReload == RefreshInterrupted /\ stats.global_config = 0

\* A Relaxed get made after an interrupted refresh found no entry for its key
\* and read the store; the store answering with a value, the get returned it
\* and cached it
MissFallsThroughAfterInterrupt ==
    /\ (/\ RefreshInterrupted
        /\ obs.op = "load_instructions_for_agent" /\ obs.use_cache
        /\ ~obs.preH /\ obs.pre = "absent") =>
          /\ obs.io.kv = 1
          /\ (obs.ko = "ok" /\ kv[obs.agent] \notin {NoItem, ""}) =>
                /\ obs.val = Strip(kv[obs.agent])
                /\ instructions_cache[obs.agent] = obs.val
    /\ (/\ RefreshInterrupted
        /\ obs.op = "get_agent_config" /\ ~obs.preH /\ obs.pre = "absent") =>
          /\ obs.io.kv = 1
          /\ (obs.ko = "ok" /\ kvGlobal \in Configs) =>
                (obs.cfg = kvGlobal /\ GLOBAL_CONFIG = kvGlobal)

C11_GlobalLoadFailureFailsRefresh ==
    (RefreshReturned /\ ~stats.got_global) => ~stats.success

-----------------------------------------------------------------------------
(* Properties of the context store (SpecCtx)                                *)

\* C4 as stated: every sequence in agent_context_store[s][a] holds at most
\* 8 turns in every reachable state, also while an agent seeded from the
\* entry keeps receiving turns.
C4_StoredContextBounded ==
    \A s \in DOMAIN agent_context_store :
       \A a \in DOMAIN agent_context_store[s] :
          Len(agent_context_store[s][a]) <= NSwitch

\* C5 as stated: within one session, when a request switched away from
\* agent A holding n live turns, the A created on switching back is seeded
\* with exactly the last min(n, 8) of those turns, oldest first.
C5_SwitchBackRestoresLastTurns ==
    (ctx_obs.op = "invoke" /\ ctx_obs.type_changed /\ ctx_obs.created
       /\ ctx_obs.left.valid /\ sessions_seen = {ctx_obs.session}) =>
       ctx_obs.seeded = trim_context_messages(ctx_obs.left.msgs, NSwitch)

\* C15 as stated: no sequence of agent_context_store aliases a live agent's
\* message buffer. When a request created an agent seeded from the store and
\* the agent's run then appended its turns, the stored sequence is still the
\* one the agent was seeded with; and no live agent's message list is the
\* list object of a store entry.
C15_StoredNeverAliasesLive ==
    /\ (ctx_obs.op = "invoke" /\ ctx_obs.created /\ ctx_obs.seeded # <<>>) =>
          agent_context_store[ctx_obs.session][ctx_obs.agent_name]
              = ctx_obs.seeded
    /\ agent.live => agent.seeded_from = <<>>

\* Every turn of msgs was produced by a request of session sid
TurnsOfSession(msgs, sid) ==
    \A i \in 1..Len(msgs) : turn_session[msgs[i]] = sid

\* C26 as stated: every sequence stored under agent_context_store[s][a]
\* holds only turns exchanged in session s, and a request of session s2
\* never has turns of another session restored into its agent.
C26_StoredTurnsBelongToSession ==
    /\ \A s \in DOMAIN agent_context_store :
          \A a \in DOMAIN agent_context_store[s] :
             TurnsOfSession(agent_context_store[s][a], s)
    /\ (ctx_obs.op = "invoke" /\ ctx_obs.created) =>
          TurnsOfSession(ctx_obs.seeded, ctx_obs.session)

\* A step of agent_invocation with a prompt that names an agent other than
\* the one loaded when the request arrived
SwitchesLoadedAgent ==
    /\ requests' = requests + 1 /\ ctx_obs'.op = "invoke"
    /\ agent.live /\ agent.name # ctx_obs'.agent_name

\* ... after which the store holds, under the request's session, the last
\* messages the outgoing agent had
OutgoingSaved ==
    /\ StoreHas(agent_context_store', ctx_obs'.session, agent.name)
    /\ agent_context_store'[ctx_obs'.session][agent.name]
          = trim_context_messages(agent.messages, NSwitch)

\* C29 as stated: whenever an invocation names an agent different from the
\* loaded one, the outgoing agent's live messages are saved to
\* agent_context_store before the new agent is constructed, also when the
\* invocation asked for a cache refresh.
C29_SwitchSavesOutgoing ==
    [][SwitchesLoadedAgent => OutgoingSaved]_vars

-----------------------------------------------------------------------------
(* Properties of overlapping requests (SpecOverlap)                         *)

\* Where the conversation of agent a is kept: the messages of the loaded
\* agent, or the entry saved for a when it was switched away from
ContextOf(a) ==
    IF agent.live /\ agent.name = a THEN agent.messages
    ELSE IF StoreHas(agent_context_store, OverlapSession, a)
    THEN agent_context_store[OverlapSession][a]
    ELSE <<>>

\* C20 as stated: updates of agent_context_store[s][a] and of the loaded
\* agent are exclusive per key, so that when invocations of one session
\* overlap no context update is lost: the turns the latest finished run of
\* agent a appended are in a's conversation, which is the loaded agent's
\* messages or the entry saved for a.
C20_NoContextUpdateLost ==
    \A a \in Agents :
       \A n \in 1..Len(last_run[a]) :
          \E j \in 1..Len(ContextOf(a)) : ContextOf(a)[j] = last_run[a][n]

-----------------------------------------------------------------------------
(* Properties of the conversation manager (SpecMem)                         *)

\* mobs describes the last call on the manager; mgr and messages are as it
\* left them.  mobs.after tells whether the call before it was an
\* apply_management too (nothing touched the message list in between) and
\* how that one ended.
SecondApplyInARow ==
    mobs.op = "apply_management" /\ mobs.after \in {"ok", "failed"}

ApplyWasNoOp ==
    mobs.calls = 0 /\ mgr.last_persisted_index = mobs.index_before

\* C6 as stated: apply_management called twice in a row with an unchanged
\* message list makes no add_turns call the second time and leaves the
\* cursor where it was.
C6_SecondApplyIsNoOp ==
    SecondApplyInARow => ApplyWasNoOp

\* C6 amended: the second of two apply_management calls in a row is a no-op
\* when the first one made no add_turns call or its add_turns call returned;
\* when the first one's add_turns raised, the cursor stayed and the second
\* call hands the same messages to add_turns again.
C6_SecondApplyIsNoOpAfterSuccess ==
    /\ (SecondApplyInARow /\ mobs.after = "ok") => ApplyWasNoOp
    /\ (SecondApplyInARow /\ mobs.after = "failed") => mobs.calls = 1

C6_Witness ==
    /\ SecondApplyInARow
    /\ mobs.after = "ok"
    /\ mgr.memory_available
    /\ add_turns_calls >= 1
    /\ messages # <<>>
    /\ mgr.last_persisted_index = Len(messages) - 1

CursorKept == mgr.last_persisted_index >= mobs.index_before

\* C7 as stated: no restore_from_session, apply_management, reduce_context or
\* update_session_info call on a manager lowers _last_persisted_index.
C7_CursorNeverDecreases ==
    mobs.op \in {"restore_from_session", "apply_management",
                 "reduce_context", "update_session_info"} => CursorKept

\* C7 amended: the restore_from_session of a new manager, apply_management
\* and update_session_info never lower the cursor; reduce_context leaves it
\* or sets it to the last index of the list it leaves, which may be lower.
C7_CursorMonotonicExceptReduce ==
    /\ mobs.op \in {"restore_from_session", "apply_management",
                    "update_session_info"} => CursorKept
    /\ mobs.op = "reduce_context" =>
          \/ mgr.last_persisted_index = mobs.index_before
          \/ mgr.last_persisted_index = Len(messages) - 1

C7_Witness ==
    /\ mobs.op = "apply_management"
    /\ mobs.index_before >= 0
    /\ mgr.last_persisted_index > mobs.index_before

\* the agent's list is exactly the restored turns
OnlyRestoredTurns ==
    /\ restored # {}
    /\ Len(messages) = Cardinality(restored)
    /\ \A i \in 1..Len(messages) : messages[i] \in restored

\* C8: a restore that returned n >= 1 turns leaves the cursor at n - 1 and
\* the agent with those turns; apply_management on exactly those turns makes
\* no add_turns call; no restored turn is ever handed to add_turns.
C8_RestoredTurnsNeverPushed ==
    /\ (mobs.op = "restore_from_session" /\ Len(mobs.returned) >= 1) =>
          /\ mgr.last_persisted_index = Len(mobs.returned) - 1
          /\ messages = mobs.returned
          /\ OnlyRestoredTurns
    /\ (mobs.op = "apply_management" /\ OnlyRestoredTurns) => ApplyWasNoOp
    /\ pushed \cap restored = {}

C8_Witness ==
    /\ mobs.op = "apply_management"
    /\ OnlyRestoredTurns
    /\ mgr.memory_available
    /\ mgr.last_persisted_index = Len(messages) - 1

\* The last call was a restore_from_session whose get_last_k_turns ...
\* ... was answered and found no turn for (actor, session)
RestoreFoundNoHistory ==
    /\ mobs.op = "restore_from_session" /\ mobs.outcome = "ok"
    /\ durable[mgr.memory_session] = <<>>
\* ... raised (the store is unreachable or failed)
RestoreStoreFailed ==
    mobs.op = "restore_from_session" /\ mobs.outcome = "error"
\* What the caller of restore_from_session sees: None, without an exception
ReturnedNone == mobs.returned = <<>> /\ ~mobs.raised

\* C21 as stated: restore_from_session gives its caller distinguishable
\* outcomes for "store reachable, no history for (actor, session)" and
\* "store unreachable or failed": no history is a normal return of None,
\* and a failed store read is never a normal return of None.
C21_NoHistoryDistinctFromFailure ==
    /\ RestoreFoundNoHistory => ReturnedNone
    /\ RestoreStoreFailed => ~ReturnedNone

\* The add_turns call of the last apply_management raised
AddTurnsFailed ==
    /\ mobs.op = "apply_management" /\ mobs.calls = 1
    /\ mobs.outcome \in {"error", "timeout_after_write"}
\* The last call is the first apply_management after one whose add_turns
\* raised
ApplyAfterFailedPush ==
    mobs.op = "apply_management" /\ mobs.pending_failed # <<>>
\* The turns after position n (a 0-based index) of the live list
TurnsAfter(n) ==
    IF n + 1 < Len(messages)
    THEN SubSeq(messages, n + 2, Len(messages)) ELSE <<>>

ReduceShrank ==
    mobs.op = "reduce_context" /\ Len(messages) < mobs.len_before
\* The last call was an apply_management, made after a reduce_context
\* shortened the list, that called add_turns
PushAfterReduction ==
    mobs.op = "apply_management" /\ mobs.reduced_to >= 0 /\ mobs.calls = 1

\* C23: a reduce_context that shortened the live list leaves the cursor at
\* the last index of the shortened list, and an apply_management after it
\* hands add_turns only turns appended after the reduction: the turns after
\* the cursor, none of which was in the list the reduction left.
C23_ReduceResyncsCursor ==
    /\ ReduceShrank => mgr.last_persisted_index = Len(messages) - 1
    /\ PushAfterReduction =>
          /\ mobs.index_before >= mobs.reduced_to - 1
          /\ mobs.handed = TurnsAfter(mobs.index_before)
          /\ \A i \in 1..Len(mobs.handed) :
                \A j \in 1..mobs.reduced_to : messages[j] # mobs.handed[i]

\* C23 witness: after a reduction that shortened the list the agent appended
\* a turn and apply_management pushed that turn alone.
C23_Witness ==
    /\ PushAfterReduction
    /\ mobs.outcome = "ok"
    /\ Len(mobs.handed) = Len(messages) - mobs.reduced_to
    /\ Len(mobs.handed) >= 1

\* The durable session handle add_turns and get_last_k_turns go through is
\* the one of the manager's current (actor_id, session_id)
HandleMatchesIds ==
    mgr.memory_available =>
       mgr.memory_session = <<mgr.actor_id, mgr.session_id>>

\* An update_session_info call that names the identifiers the manager has
\* changes nothing
SameIdsChangeNothing ==
    (/\ mobs'.op = "update_session_info"
     /\ mgr'.actor_id = mgr.actor_id
     /\ mgr'.session_id = mgr.session_id) => mgr' = mgr

\* C24 as stated: after update_session_info with a differing actor or
\* session the manager is bound to a new durable session handle, so that
\* every later append and restore targets (newActor, newSession); with the
\* same identifiers no handle is created and the manager is unchanged.
C24_UpdateRebindsHandle ==
    []HandleMatchesIds /\ [][SameIdsChangeNothing]_vars

\* No turn is held twice by the durable record of (actor, session)
NoDuplicateIn(key) ==
    \A i, j \in 1..Len(durable[key]) :
       i # j => durable[key][i] # durable[key][j]

\* C25 as stated: no conversation turn is appended to durable memory for
\* the same (actor, session) more than once, also when the agent was
\* recreated and seeded from the saved in-memory context: its new manager
\* does not push the seeded turns again.
C25_NoTurnStoredTwice ==
    \A key \in MemKeys : NoDuplicateIn(key)

\* The turn is held by a durable record
InDurable(t) ==
    \E key \in MemKeys : \E i \in 1..Len(durable[key]) : durable[key][i] = t

\* C27 as stated: for a manager bound to durable memory, every live message
\* at an index up to the cursor has been appended to durable memory or was
\* restored from it, also after a reduce_context.
C27_PersistedMeansPushed ==
    mgr.memory_available =>
       \A i \in 1..Len(messages) :
          i - 1 <= mgr.last_persisted_index =>
             (InDurable(messages[i]) \/ messages[i] \in restored)

\* C30 as stated: a reduce_context call on a non-empty live list either
\* leaves fewer live messages than it found or raises to its caller; it
\* never returns normally with the list as long as before.
C30_ReduceShrinksOrRaises ==
    (mobs.op = "reduce_context" /\ mobs.len_before > 0) =>
       (Len(messages) < mobs.len_before \/ mobs.raised)

====
